---- MODULE Spec2Model ----
(***************************************************************************)
(* A model of the faneX-ID integration plugins: the AI helper's provider   *)
(* dispatch, the generic webhook sender, and the plugin contract           *)
(* (async_setup, service registration, handler invocation) of every        *)
(* integration of the repository.                                          *)
(*                                                                         *)
(* The specifications of the module:                                       *)
(*   SpecAI       AIHelper.query over every credential configuration       *)
(*   SpecWebhook  WebhookGenericIntegration.send_webhook                   *)
(*   Spec         one plugin instance: async_setup, then handler calls     *)
(*   SpecTasks    one instance of a plugin with a client cache, two        *)
(*                handler invocations in flight on the event loop          *)
(*   SpecReload   one plugin instance whose async_setup may run twice      *)
(*   SpecExtract  _extract_json_from_response over short response texts    *)
(*   SpecLogs     analyze_logs over log lists around the prompt's limit     *)
(***************************************************************************)
EXTENDS Integers, Sequences, FiniteSets, TLC

VARIABLES
    aiCfg,      \* AIHelper's constructor arguments (which keys are set)
    aiClients,  \* AIHelper._gemini_client / _chatgpt_client / _azure_openai_client
    aiLast,     \* what the last AIHelper.query did
    whCfg,      \* the webhook plugin's config: default_url, default_headers
    whLast,     \* what the last send_webhook did
    plugin,     \* the integration the host has instantiated
    config,     \* self.config: the keys holding a non-empty value
    env,        \* the process: which vendor packages and host services exist
    setupRet,   \* what async_setup returned: "none" before it ran
    registry,   \* service_registry: the <<domain, service, handler>> entries
    inst,       \* the instance's attributes holding a value (self._bot, ...)
    authed,     \* an earlier call of this instance authenticated with the vendor
    last,       \* what the last handler invocation did
    tasks,      \* the invocations the host has started as tasks of its event loop
    responseText,   \* an AI response, as the tokens of its text
    extracted,      \* what _extract_json_from_response returned for it
    logData,        \* data["log_data"] of an analyze_logs request
    analysis        \* what analyze_logs did with it

aiVars == <<aiCfg, aiClients, aiLast>>

whVars == <<whCfg, whLast>>

hostVars == <<plugin, config, env, setupRet, registry, inst, authed, last, tasks>>

exVars == <<responseText, extracted>>

logVars == <<logData, analysis>>

vars == <<aiCfg, aiClients, aiLast, whCfg, whLast,
          plugin, config, env, setupRet, registry, inst, authed, last, tasks,
          responseText, extracted, logData, analysis>>

(***************************************************************************)
(* AIHelper (src/integrations/ai-assistant/ai_helper.py)                   *)
(***************************************************************************)

\* The names AIHelper.query routes, and one it does not know.
AIProviderArgs == {"auto", "gemini", "chatgpt", "azure", "azure_openai", "unknown"}

\* Values of default_provider: the routable names and an unknown one.
AIDefaultProviders == {"gemini", "chatgpt", "azure", "azure_openai", "unknown"}

AIConfigs ==
    [gemini_api_key : BOOLEAN, chatgpt_api_key : BOOLEAN,
     azure_openai_api_key : BOOLEAN, azure_openai_endpoint : BOOLEAN,
     azure_openai_deployment : BOOLEAN, default_provider : AIDefaultProviders]

AIResult(selected, backend, out, clients) ==
    [selected |-> selected, backend |-> backend, out |-> out, clients |-> clients]

\* _select_best_provider: the default if its key is set, else the first key set.
SelectBestProvider_FallbackSwapped(c) ==
    IF c.default_provider = "gemini" /\ c.gemini_api_key THEN "gemini"
    ELSE IF c.default_provider = "chatgpt" /\ c.chatgpt_api_key THEN "chatgpt"
    ELSE IF c.default_provider = "azure" /\ c.azure_openai_api_key THEN "azure"
    ELSE IF c.chatgpt_api_key THEN "chatgpt"
    ELSE IF c.gemini_api_key THEN "gemini"
    ELSE IF c.azure_openai_api_key THEN "azure"
    ELSE "RAISE"

SelectBestProvider(c) ==
    IF c.default_provider = "gemini" /\ c.gemini_api_key THEN "gemini"
    ELSE IF c.default_provider = "chatgpt" /\ c.chatgpt_api_key THEN "chatgpt"
    ELSE IF c.default_provider = "azure" /\ c.azure_openai_api_key THEN "azure"
    ELSE IF c.gemini_api_key THEN "gemini"
    ELSE IF c.chatgpt_api_key THEN "chatgpt"
    ELSE IF c.azure_openai_api_key THEN "azure"
    ELSE "RAISE"

\* _query_gemini: the key check, the lazy client, one generate_content call.
\* lib: the vendor package imports; ok: the vendor call returns.
QueryGemini(c, clients, sel, lib, ok) ==
    IF ~c.gemini_api_key THEN AIResult(sel, "none", "raise", clients)
    ELSE IF ~lib THEN AIResult(sel, "none", "raise", clients)
    ELSE AIResult(sel, "gemini", IF ok THEN "ok" ELSE "raise", clients \cup {"gemini"})

\* _query_chatgpt
QueryChatGPT(c, clients, sel, lib, ok) ==
    IF ~c.chatgpt_api_key THEN AIResult(sel, "none", "raise", clients)
    ELSE IF ~lib THEN AIResult(sel, "none", "raise", clients)
    ELSE AIResult(sel, "chatgpt", IF ok THEN "ok" ELSE "raise", clients \cup {"chatgpt"})

\* _query_azure_openai: key, endpoint and deployment are all checked.
QueryAzureOpenAI_KeyOnly(c, clients, sel, lib, ok) ==
    IF ~c.azure_openai_api_key THEN AIResult(sel, "none", "raise", clients)
    ELSE IF ~lib THEN AIResult(sel, "none", "raise", clients)
    ELSE AIResult(sel, "azure", IF ok THEN "ok" ELSE "raise", clients \cup {"azure"})

QueryAzureOpenAI(c, clients, sel, lib, ok) ==
    IF ~c.azure_openai_api_key THEN AIResult(sel, "none", "raise", clients)
    ELSE IF ~c.azure_openai_endpoint THEN AIResult(sel, "none", "raise", clients)
    ELSE IF ~c.azure_openai_deployment THEN AIResult(sel, "none", "raise", clients)
    ELSE IF ~lib THEN AIResult(sel, "none", "raise", clients)
    ELSE AIResult(sel, "azure", IF ok THEN "ok" ELSE "raise", clients \cup {"azure"})

\* AIHelper.query: resolve "auto", then route by name.
AIHelperQuery(c, clients, provider, lib, ok) ==
    LET sel == IF provider = "auto" THEN SelectBestProvider(c) ELSE provider
    IN  IF sel = "RAISE" THEN AIResult("none", "none", "raise", clients)
        ELSE IF sel = "gemini" THEN QueryGemini(c, clients, sel, lib, ok)
        ELSE IF sel = "chatgpt" THEN QueryChatGPT(c, clients, sel, lib, ok)
        ELSE IF sel = "azure" \/ sel = "azure_openai"
             THEN QueryAzureOpenAI(c, clients, sel, lib, ok)
        ELSE AIResult(sel, "none", "raise", clients)

\* is_provider_available
IsProviderAvailable(c, provider) ==
    IF provider = "gemini" THEN c.gemini_api_key
    ELSE IF provider = "chatgpt" THEN c.chatgpt_api_key
    ELSE IF provider = "azure" \/ provider = "azure_openai"
         THEN c.azure_openai_api_key /\ c.azure_openai_endpoint /\ c.azure_openai_deployment
    ELSE FALSE

\* query's max_tokens and temperature arguments: None, or a number (the
\* temperature in tenths).
NoArg == -1

AIMaxTokensArgs == {NoArg, 500}

AITemperatureArgs == {NoArg, 0, 2}

\* AIHelper.__init__: max_tokens = 2000, temperature = 0.7.
AIMaxTokens == 2000

AITemperature == 7

\* arg or default: None and 0 are both falsy.
OrDefault(arg, default) == IF arg = NoArg \/ arg = 0 THEN default ELSE arg

AINoCall ==
    [provider |-> "none", selected |-> "none", backend |-> "none", out |-> "none",
     lib |-> FALSE, ok |-> FALSE, max_tokens |-> NoArg, temperature |-> NoArg,
     sent_max_tokens |-> NoArg, sent_temperature |-> NoArg]

AIInit ==
    /\ aiCfg \in AIConfigs
    /\ aiClients = {}
    /\ aiLast = AINoCall

\* The AI helper unused: the other specifications hold it here.
AIIdle ==
    /\ aiCfg = [gemini_api_key |-> FALSE, chatgpt_api_key |-> FALSE,
                azure_openai_api_key |-> FALSE, azure_openai_endpoint |-> FALSE,
                azure_openai_deployment |-> FALSE, default_provider |-> "gemini"]
    /\ aiClients = {}
    /\ aiLast = AINoCall

\* One call of AIHelper.query(prompt, provider).
AIQuery ==
    \E provider \in AIProviderArgs, lib \in BOOLEAN, ok \in BOOLEAN,
       max_tokens \in AIMaxTokensArgs, temperature \in AITemperatureArgs :
        LET r == AIHelperQuery(aiCfg, aiClients, provider, lib, ok)
            called == r.backend # "none"
        IN  /\ aiLast' = [provider |-> provider, selected |-> r.selected,
                          backend |-> r.backend, out |-> r.out,
                          lib |-> lib, ok |-> ok,
                          max_tokens |-> max_tokens, temperature |-> temperature,
                          sent_max_tokens |->
                              IF called THEN OrDefault(max_tokens, AIMaxTokens)
                              ELSE NoArg,
                          sent_temperature |->
                              IF called THEN OrDefault(temperature, AITemperature)
                              ELSE NoArg]
            /\ aiClients' = r.clients
            /\ UNCHANGED aiCfg
            /\ UNCHANGED whVars
            /\ UNCHANGED hostVars
            /\ UNCHANGED <<exVars, logVars>>

(***************************************************************************)
(* WebhookGenericIntegration (src/integrations/webhook-generic)            *)
(***************************************************************************)

WHNoUrl == "none"

\* data["url"] and config["default_url"]: absent, or a URL.
WHRequestUrls == {WHNoUrl, "https://example.test/hook"}

WHDefaultUrls == {WHNoUrl, "https://default.test/hook"}

\* data["method"]: absent, or a name in some letter case.
WHMethodArgs == {"absent", "post", "PUT", "Patch", "GET", "DELETE", "HEAD"}

\* str.upper() on the method names above.
Upper(m) ==
    CASE m = "post" -> "POST"
      [] m = "Patch" -> "PATCH"
      [] OTHER -> m

WHPayloads == {"absent", "{a: 1}"}

\* Header mappings: Python dict keys are case-sensitive.
WHHeaderKeys == {"Content-Type", "content-type"}

WHHeaderValues(k) ==
    IF k = "content-type" THEN {"text/plain"} ELSE {"application/json", "text/plain"}

WHHeaderDicts ==
    UNION {{h \in [ks -> {"application/json", "text/plain"}] :
                \A k \in ks : h[k] \in WHHeaderValues(k)} : ks \in SUBSET WHHeaderKeys}

\* What the vendor endpoint answers: an HTTP status, or no answer at all.
WHResponses == {200, 404, -1}

\* dict.copy() followed by dict.update(custom)
DictUpdate(base, custom) ==
    [k \in DOMAIN base \cup DOMAIN custom |->
        IF k \in DOMAIN custom THEN custom[k] ELSE base[k]]

DictSet(d, key, value) ==
    [k \in DOMAIN d \cup {key} |-> IF k = key THEN value ELSE d[k]]

\* response.raise_for_status(): 4xx and 5xx raise.
RaiseForStatus(code) == code >= 400 /\ code < 600

WHResult(out, status_code, sent) ==
    [out |-> out, status_code |-> status_code, sent |-> sent]

\* send_webhook with the Content-Type default applied without looking.
SendWebhook_AlwaysSetsContentType(cfg, url, method, payload, custom, resp) ==
    LET target == IF url # WHNoUrl THEN url ELSE cfg.default_url
        m == Upper(IF method = "absent" THEN "POST" ELSE method)
        body == IF payload = "absent" THEN "{}" ELSE payload
        headers == DictSet(DictUpdate(cfg.default_headers, custom),
                           "Content-Type", "application/json")
        request == [method |-> m, url |-> target, headers |-> headers,
                    json |-> IF m \in {"POST", "PUT", "PATCH"} THEN body ELSE "none",
                    params |-> IF m = "GET" THEN body ELSE "none"]
    IN  IF target = WHNoUrl THEN WHResult("raise", 0, <<>>)
        ELSE IF m \notin {"GET", "POST", "PUT", "PATCH", "DELETE"}
             THEN WHResult("raise", 0, <<>>)
        ELSE IF resp = -1 \/ RaiseForStatus(resp)
             THEN WHResult("raise", 0, <<request>>)
        ELSE WHResult("sent", resp, <<request>>)

\* send_webhook: resolve the URL, merge the headers, default the Content-Type,
\* send one request by method, return {"status": "sent", "status_code": ...}.
SendWebhook(cfg, url, method, payload, custom, resp) ==
    LET target == IF url # WHNoUrl THEN url ELSE cfg.default_url
        m == Upper(IF method = "absent" THEN "POST" ELSE method)
        body == IF payload = "absent" THEN "{}" ELSE payload
        merged == DictUpdate(cfg.default_headers, custom)
        headers == IF "Content-Type" \notin DOMAIN merged
                        /\ m \in {"POST", "PUT", "PATCH"}
                   THEN DictSet(merged, "Content-Type", "application/json")
                   ELSE merged
        request == [method |-> m, url |-> target, headers |-> headers,
                    json |-> IF m \in {"POST", "PUT", "PATCH"} THEN body ELSE "none",
                    params |-> IF m = "GET" THEN body ELSE "none"]
    IN  IF target = WHNoUrl THEN WHResult("raise", 0, <<>>)
        ELSE IF m \notin {"GET", "POST", "PUT", "PATCH", "DELETE"}
             THEN WHResult("raise", 0, <<>>)
        ELSE IF resp = -1 \/ RaiseForStatus(resp)
             THEN WHResult("raise", 0, <<request>>)
        ELSE WHResult("sent", resp, <<request>>)

WHNoCall ==
    [url |-> WHNoUrl, method |-> "none", payload |-> "absent", custom |-> <<>>,
     resp |-> 0, out |-> "none", status_code |-> 0, sent |-> <<>>]

WHInit ==
    /\ whCfg \in [default_url : WHDefaultUrls, default_headers : WHHeaderDicts]
    /\ whLast = WHNoCall

WHIdle ==
    /\ whCfg = [default_url |-> WHNoUrl, default_headers |-> <<>>]
    /\ whLast = WHNoCall

\* One call of send_webhook(data).
WHSendWebhook ==
    \E url \in WHRequestUrls, method \in WHMethodArgs, payload \in WHPayloads,
       custom \in WHHeaderDicts, resp \in WHResponses :
        LET r == SendWebhook(whCfg, url, method, payload, custom, resp)
        IN  /\ whLast' = [url |-> url, method |-> method, payload |-> payload,
                          custom |-> custom, resp |-> resp, out |-> r.out,
                          status_code |-> r.status_code, sent |-> r.sent]
            /\ UNCHANGED whCfg
            /\ UNCHANGED aiVars
            /\ UNCHANGED hostVars
            /\ UNCHANGED <<exVars, logVars>>


(***************************************************************************)
(* The plugin contract: one integration instance, its async_setup and the  *)
(* handlers the host invokes through the service registry                  *)
(***************************************************************************)

\* What the vendor answers to one outbound call: "ok" a 2xx answer carrying
\* the result, "empty" a 2xx answer carrying nothing (no record found, no
\* field set), "fail" a non-2xx answer or a transport error.
VendorOutcomes == {"ok", "empty", "fail"}

\* What the vendor does during one invocation: the outcomes of its first n calls.
VendorScripts(n) == [1..n -> VendorOutcomes]

\* The outcome of the i-th outbound call of the invocation.
Vendor(v, i) == IF i \in DOMAIN v THEN v[i] ELSE "ok"

\* What a handler invocation amounts to. out: "success" is a mapping with
\* success = True, "error" one with success = False, "sent" / "created" /
\* "updated" a mapping whose only marker is that status, "bare" a mapping
\* without marker, "passthrough" the vendor's answer unchanged, "raise" an
\* exception. calls: outbound calls made; auths: fresh authentications among
\* them, authok: one of these succeeded; emits: events put on the event bus;
\* interp: calls of the bot interpreter's register_bot; inst: the instance's
\* attributes afterwards; tried: the cache keys a client construction was
\* attempted for, built: those whose construction returned a client; err:
\* which error message an error envelope of a bot plugin carries; fromReq: the
\* fields of an update the handler sent with the request's value; used: where
\* the handler took a field with a configured default from ("n/a": it has no
\* such field or did not come to it); mutating: the POST, PATCH or DELETE
\* requests among the outbound calls of a NetBox device handler.
Ret(out, calls, st) ==
    [out |-> out, calls |-> calls, auths |-> 0, authok |-> FALSE,
     emits |-> 0, interp |-> 0, inst |-> st, tried |-> {}, built |-> {},
     err |-> "none", used |-> "n/a", fromReq |-> {}, mutating |-> 0]

\* data.get(field) or self.config.get(key): the request's value if it holds
\* one, else the configured default, else nothing.
ResolveDefault_ConfigFirst(field, key, req, cfg) ==
    IF key \in cfg THEN "default"
    ELSE IF field \in req THEN "request"
    ELSE "none"

ResolveDefault(field, key, req, cfg) ==
    IF field \in req THEN "request"
    ELSE IF key \in cfg THEN "default"
    ELSE "none"

\* The error envelope a handler returns before any outbound call:
\* {"success": False, "error": <the message err stands for>}.
Refuse(err, st) == [Ret("error", 0, st) EXCEPT !.err = err]

\* The final requests call of a handler that re-raises what the call raises.
CallOrRaise(v, n, okOut, st) ==
    IF Vendor(v, n) = "fail" THEN Ret("raise", n, st) ELSE Ret(okOut, n, st)

\* The final call of a handler that turns a failure into the error envelope.
CallOrError(v, n, okOut, st) ==
    IF Vendor(v, n) = "fail" THEN Ret("error", n, st) ELSE Ret(okOut, n, st)

\* What async_setup amounts to: its return value and what it registered.
SetupRet(ret, services, calls, st) ==
    [ret |-> ret, services |-> services, calls |-> calls, auths |-> 0,
     authok |-> FALSE, interp |-> 0, inst |-> st]

\* ---- Mattermost -----------------------------------------------------------

MattermostServices == {"send_message", "create_channel", "get_user"}

MattermostSetup(cfg, e, v) == SetupRet("True", MattermostServices, 0, {})

MattermostRequired(h) ==
    CASE h = "send_message" -> {"channel_id", "message"}
      [] h = "create_channel" -> {"name"}
      [] h = "get_user" -> {"user_id"}

\* _get_base_url, the field check, then the request, whose headers argument
\* (_get_headers) is evaluated before anything is sent.
MattermostHandler(h, cfg, req, v, st) ==
    IF "server_url" \notin cfg THEN Ret("raise", 0, st)
    ELSE IF ~(MattermostRequired(h) \subseteq req) THEN Ret("raise", 0, st)
    ELSE IF "api_token" \notin cfg THEN Ret("raise", 0, st)
    ELSE CallOrRaise(v, 1, "success", st)

\* ---- Slack (incoming webhook) ---------------------------------------------

SlackServices == {"send_message", "send_alert"}

SlackSetup(cfg, e, v) == SetupRet("True", SlackServices, 0, {})

SlackFields(h) == {"message", "channel"}

\* send_message and send_alert: message defaults to "" and is posted as is.
SlackHandler(h, cfg, req, v, st) ==
    IF "webhook_url" \notin cfg THEN Ret("raise", 0, st)
    ELSE CallOrRaise(v, 1, "sent", st)

\* ---- Microsoft Teams (incoming webhook) -----------------------------------

TeamsServices == {"send_message", "send_card"}

TeamsSetup(cfg, e, v) == SetupRet("True", TeamsServices, 0, {})

TeamsFields(h) == IF h = "send_message" THEN {"text", "title"} ELSE {"title", "sections"}

TeamsHandler(h, cfg, req, v, st) ==
    IF "webhook_url" \notin cfg THEN Ret("raise", 0, st)
    ELSE CallOrRaise(v, 1, "sent", st)

\* ---- Generic webhook, SMTP, Vaultwarden -----------------------------------

WebhookServices == {"send_webhook"}

WebhookSetup(cfg, e, v) == SetupRet("True", WebhookServices, 0, {})

\* send_webhook with the default method and no headers of its own.
WebhookHandler(h, cfg, req, v, st) ==
    LET r == SendWebhook(
                [default_url |-> IF "default_url" \in cfg
                                 THEN "https://default.test/hook" ELSE WHNoUrl,
                 default_headers |-> <<>>],
                IF "url" \in req THEN "https://example.test/hook" ELSE WHNoUrl,
                "absent",
                IF "payload" \in req THEN "{a: 1}" ELSE "absent",
                <<>>,
                IF Vendor(v, 1) = "fail" THEN 404 ELSE 200)
    IN  [Ret(r.out, Len(r.sent), st)
            EXCEPT !.used = IF r.sent = <<>> THEN "none"
                            ELSE IF r.sent[1].url = "https://example.test/hook"
                                 THEN "request"
                            ELSE "default"]

SmtpServices == {"send_email"}

SmtpSetup(cfg, e, v) == SetupRet("True", SmtpServices, 0, {})

\* send_email logs and returns {"status": "sent"}: no SMTP connection is made.
SmtpHandler(h, cfg, req, v, st) == Ret("sent", 0, st)

VaultwardenSetup(cfg, e, v) == SetupRet("True", {}, 0, {})

\* ---- Jira -----------------------------------------------------------------

JiraServices == {"create_ticket", "get_ticket", "update_ticket"}

JiraSetup(cfg, e, v) == SetupRet("True", JiraServices, 0, {})

JiraFields(h) == IF h = "create_ticket" THEN {"project_key", "summary"} ELSE {"ticket_key"}

\* project_key falls back to config["default_project"]; _get_auth is evaluated
\* while the arguments of the requests call are built.
JiraHandler(h, cfg, req, v, st) ==
    LET project_key == IF h = "create_ticket"
                       THEN ResolveDefault("project_key", "default_project", req, cfg)
                       ELSE "n/a"
        r == IF project_key = "none" THEN Ret("raise", 0, st)
             ELSE IF h # "create_ticket" /\ "ticket_key" \notin req
                  THEN Ret("raise", 0, st)
             ELSE IF ~({"username", "api_token"} \subseteq cfg) THEN Ret("raise", 0, st)
             ELSE CallOrRaise(v, 1, CASE h = "create_ticket" -> "created"
                                      [] h = "get_ticket" -> "bare"
                                      [] h = "update_ticket" -> "updated", st)
    IN  IF "server_url" \notin cfg THEN Ret("raise", 0, st)
        ELSE [r EXCEPT !.used = project_key]

\* ---- Otobo ----------------------------------------------------------------

OtoboServices == {"create_ticket", "get_ticket", "update_ticket", "add_article"}

OtoboSetup(cfg, e, v) == SetupRet("True", OtoboServices, 0, {})

OtoboFields(h) == IF h = "create_ticket" THEN {"queue", "title"} ELSE {"ticket_id"}

OtoboHandler(h, cfg, req, v, st) ==
    LET queue == IF h = "create_ticket"
                 THEN ResolveDefault("queue", "default_queue", req, cfg)
                 ELSE "n/a"
        r == IF queue = "none" THEN Ret("raise", 0, st)
             ELSE IF h # "create_ticket" /\ "ticket_id" \notin req
                  THEN Ret("raise", 0, st)
             ELSE IF ~({"username", "password"} \subseteq cfg) THEN Ret("raise", 0, st)
             ELSE CallOrRaise(v, 1, "success", st)
    IN  IF "server_url" \notin cfg THEN Ret("raise", 0, st)
        ELSE [r EXCEPT !.used = queue]

\* ---- SoSafe ---------------------------------------------------------------

SoSafeServices == {"report_phishing", "get_user_status"}

SoSafeSetup(cfg, e, v) == SetupRet("True", SoSafeServices, 0, {})

SoSafeRequired(h) == IF h = "report_phishing" THEN {"url"} ELSE {"user_email"}

SoSafeHandler(h, cfg, req, v, st) ==
    IF "api_url" \notin cfg THEN Ret("raise", 0, st)
    ELSE IF ~(SoSafeRequired(h) \subseteq req) THEN Ret("raise", 0, st)
    ELSE IF "api_key" \notin cfg THEN Ret("raise", 0, st)
    ELSE CallOrRaise(v, 1, "success", st)

\* ---- Wiki.js --------------------------------------------------------------

WikiJSServices == {"create_page", "get_page", "update_page", "search_pages"}

WikiJSSetup(cfg, e, v) == SetupRet("True", WikiJSServices, 0, {})

WikiJSRequired(h) == IF h \in {"get_page", "update_page"} THEN {"page_id"} ELSE {}

WikiJSFields(h) ==
    CASE h = "create_page" -> {"title"}
      [] h = "search_pages" -> {"query"}
      [] OTHER -> {"page_id"}

WikiJSHandler(h, cfg, req, v, st) ==
    IF "server_url" \notin cfg THEN Ret("raise", 0, st)
    ELSE IF ~(WikiJSRequired(h) \subseteq req) THEN Ret("raise", 0, st)
    ELSE IF "api_token" \notin cfg THEN Ret("raise", 0, st)
    ELSE CallOrRaise(v, 1, "success", st)

\* ---- Calendar sync --------------------------------------------------------

CalendarServices == {"create_event", "list_events"}

CalendarSetup(cfg, e, v) == SetupRet("True", CalendarServices, 0, {})

CalendarFields(h) == IF h = "create_event" THEN {"title", "start_time"} ELSE {"start_date"}

\* "provider:other" in cfg: config["provider"] is neither google nor outlook.
CalendarHandler(h, cfg, req, v, st) ==
    IF "provider:other" \in cfg THEN Ret("raise", 0, st)
    ELSE IF "api_key" \notin cfg THEN Ret("raise", 0, st)
    ELSE CallOrRaise(v, 1, IF h = "create_event" THEN "created" ELSE "bare", st)

\* ---- Nextcloud ------------------------------------------------------------

NextcloudServices == {"upload_file", "create_share", "get_user"}

NextcloudSetup(cfg, e, v) == SetupRet("True", NextcloudServices, 0, {})

NextcloudRequired(h) ==
    CASE h = "upload_file" -> {"remote_path"}
      [] h = "create_share" -> {"path"}
      [] h = "get_user" -> {"user_id"}

NextcloudHandler(h, cfg, req, v, st) ==
    IF "server_url" \notin cfg THEN Ret("raise", 0, st)
    ELSE IF ~(NextcloudRequired(h) \subseteq req) THEN Ret("raise", 0, st)
    ELSE IF ~({"username", "password"} \subseteq cfg) THEN Ret("raise", 0, st)
    ELSE CallOrRaise(v, 1, "success", st)

\* ---- Bitwarden ------------------------------------------------------------

BitwardenServices ==
    {"get_organization", "create_member", "get_members", "create_collection",
     "get_collections"}

BitwardenSetup(cfg, e, v) == SetupRet("True", BitwardenServices, 0, {})

BitwardenFields(h) ==
    CASE h = "create_member" -> {"organization_id", "email"}
      [] h = "create_collection" -> {"organization_id", "name"}
      [] OTHER -> {"organization_id"}

\* Every handler: the organization (request, else default_organization_id) and
\* its own fields, then _get_auth_token (credentials check and one token POST,
\* nothing kept), then the request itself.
BitwardenHandler(h, cfg, req, v, st) ==
    LET organization_id ==
            ResolveDefault("organization_id", "default_organization_id", req, cfg)
        r == IF organization_id = "none" THEN Ret("raise", 0, st)
             ELSE IF ~((BitwardenFields(h) \ {"organization_id"}) \subseteq req)
                  THEN Ret("raise", 0, st)
             ELSE IF ~({"client_id", "client_secret"} \subseteq cfg)
                  THEN Ret("raise", 0, st)
             ELSE IF Vendor(v, 1) # "ok" THEN [Ret("raise", 1, st) EXCEPT !.auths = 1]
             ELSE [CallOrRaise(v, 2, "success", st)
                      EXCEPT !.auths = 1, !.authok = TRUE]
    IN  [r EXCEPT !.used = organization_id]

\* ---- Home Assistant -------------------------------------------------------

HomeAssistantServices ==
    {"call_service", "get_state", "get_states", "fire_event", "test_connection"}

\* async_setup that checks the base_url alone.
HomeAssistantSetup_TokenUnchecked(cfg, e, v) ==
    IF "base_url" \notin cfg
    THEN SetupRet("False", {}, 0, cfg \cap {"base_url", "access_token"})
    ELSE SetupRet("True", HomeAssistantServices, 0,
                  (cfg \cap {"base_url", "access_token"}) \cup {"_api_url"})

\* base_url and access_token are checked before anything is registered.
HomeAssistantSetup(cfg, e, v) ==
    IF ~({"base_url", "access_token"} \subseteq cfg)
    THEN SetupRet("False", {}, 0, cfg \cap {"base_url", "access_token"})
    ELSE SetupRet("True", HomeAssistantServices, 0, {"base_url", "access_token", "_api_url"})

HomeAssistantRequired(h) ==
    CASE h = "call_service" -> {"domain", "service"}
      [] h = "get_state" -> {"entity_id"}
      [] h = "fire_event" -> {"event_type"}
      [] OTHER -> {}

HomeAssistantFields(h) == IF h = "get_states" THEN {"domain"} ELSE HomeAssistantRequired(h)

HomeAssistantHandler(h, cfg, req, v, st) ==
    IF ~(HomeAssistantRequired(h) \subseteq req) THEN Ret("error", 0, st)
    ELSE CallOrError(v, 1, "success", st)

\* ---- NetBox ---------------------------------------------------------------

NetBoxServices ==
    {"get_devices", "get_device", "get_ip_addresses", "get_virtual_machines",
     "create_device", "update_device", "delete_device", "test_connection"}

NetBoxSetup(cfg, e, v) ==
    IF ~({"base_url", "api_token"} \subseteq cfg)
    THEN SetupRet("False", {}, 0, cfg \cap {"base_url", "api_token"})
    ELSE SetupRet("True", NetBoxServices, 0, {"base_url", "api_token", "_api_base"})

NetBoxFields(h) ==
    CASE h \in {"get_device", "delete_device"} -> {"device_id"}
      [] h = "update_device" -> {"device_id", "name", "role"}
      [] h = "create_device" -> {"device_type", "role"}
      [] h = "test_connection" -> {}
      [] OTHER -> {"status"}

\* get_device starting at outbound call n: by id, and when that fails by name.
\* found: the result carries success; id: the record found carries an id.
NetBoxGetDevice(v, n) ==
    IF Vendor(v, n) # "fail"
    THEN [found |-> TRUE, id |-> Vendor(v, n) = "ok", calls |-> n]
    ELSE IF Vendor(v, n + 1) = "ok"
         THEN [found |-> TRUE, id |-> TRUE, calls |-> n + 1]
         ELSE [found |-> FALSE, id |-> FALSE, calls |-> n + 1]

\* The error envelope a device handler returns after n lookups.
NetBoxError(err, n, st) == [Ret("error", n, st) EXCEPT !.err = err]

\* The POST, PATCH or DELETE as outbound call n, and its result handed back.
NetBoxMutate(v, n, st) == [CallOrError(v, n, "success", st) EXCEPT !.mutating = 1]

\* create_device looking the role up twice, as it does the site.
NetBoxCreateDevice_RoleLookedUpTwice(req, v, st) ==
    IF Vendor(v, 1) # "ok" THEN NetBoxError("Device type not found", 1, st)
    ELSE IF Vendor(v, 2) # "ok" /\ Vendor(v, 3) # "ok"
    THEN NetBoxError("Site not found", 3, st)
    ELSE LET site == IF Vendor(v, 2) = "ok" THEN 2 ELSE 3
             post == IF "role" \in req THEN site + 3 ELSE site + 1
         IN  NetBoxMutate(v, post, st)

\* create_device: the device type, the site by slug and else by name, the
\* role when one is given, then the POST.
NetBoxCreateDevice(req, v, st) ==
    IF Vendor(v, 1) # "ok" THEN NetBoxError("Device type not found", 1, st)
    ELSE IF Vendor(v, 2) # "ok" /\ Vendor(v, 3) # "ok"
    THEN NetBoxError("Site not found", 3, st)
    ELSE LET site == IF Vendor(v, 2) = "ok" THEN 2 ELSE 3
             post == IF "role" \in req THEN site + 2 ELSE site + 1
         IN  NetBoxMutate(v, post, st)

\* update_device sending the PATCH before it looks at what it collected.
NetBoxUpdateDevice_PatchesUnchecked(req, v, st) ==
    IF "device_id" \notin req THEN Refuse("device_id is required", st)
    ELSE LET g == NetBoxGetDevice(v, 1)
             looked == IF "role" \in req THEN g.calls + 1 ELSE g.calls
         IN  IF ~g.found THEN NetBoxError("passed on", g.calls, st)
             ELSE NetBoxMutate(v, looked + 1, st)

\* update_device: get_device, the role lookup, then the PATCH of what changed.
NetBoxUpdateDevice(req, v, st) ==
    IF "device_id" \notin req THEN Refuse("device_id is required", st)
    ELSE LET g == NetBoxGetDevice(v, 1)
             looked == IF "role" \in req THEN g.calls + 1 ELSE g.calls
             changes == "name" \in req \/ ("role" \in req /\ Vendor(v, looked) = "ok")
         IN  IF ~g.found THEN NetBoxError("passed on", g.calls, st)
             ELSE IF ~changes THEN NetBoxError("No fields to update", looked, st)
             ELSE IF ~g.id
             THEN NetBoxError("Could not determine device API ID", looked, st)
             ELSE NetBoxMutate(v, looked + 1, st)

\* delete_device reading the device id from the "device" key alone, which only
\* the search by name fills.
NetBoxDeleteDevice_IdFromNameSearchOnly(req, v, st) ==
    IF "device_id" \notin req THEN Refuse("device_id is required", st)
    ELSE LET g == NetBoxGetDevice(v, 1)
         IN  IF ~g.found THEN NetBoxError("passed on", g.calls, st)
             ELSE IF ~(g.id /\ g.calls = 2)
             THEN NetBoxError("Could not determine device API ID", g.calls, st)
             ELSE NetBoxMutate(v, g.calls + 1, st)

\* delete_device: get_device, the id of the record found, then the DELETE.
NetBoxDeleteDevice(req, v, st) ==
    IF "device_id" \notin req THEN Refuse("device_id is required", st)
    ELSE LET g == NetBoxGetDevice(v, 1)
         IN  IF ~g.found THEN NetBoxError("passed on", g.calls, st)
             ELSE IF ~g.id
             THEN NetBoxError("Could not determine device API ID", g.calls, st)
             ELSE NetBoxMutate(v, g.calls + 1, st)

NetBoxHandler(h, cfg, req, v, st) ==
    CASE h = "get_device" ->
            IF "device_id" \notin req THEN Ret("error", 0, st)
            ELSE LET g == NetBoxGetDevice(v, 1)
                 IN  Ret(IF g.found THEN "success" ELSE "error", g.calls, st)
      [] h = "create_device" -> NetBoxCreateDevice(req, v, st)
      [] h = "update_device" -> NetBoxUpdateDevice(req, v, st)
      [] h = "delete_device" -> NetBoxDeleteDevice(req, v, st)
      [] OTHER -> CallOrError(v, 1, "success", st)

\* ---- Exchange on-premises --------------------------------------------------

ExchangeServices ==
    {"send_email", "get_mailbox", "create_calendar_event", "get_calendar_events"}

\* "lib" in e: exchangelib imports.
ExchangeSetup(cfg, e, v) ==
    IF "lib" \notin e THEN SetupRet("False", {}, 0, {})
    ELSE SetupRet("True", ExchangeServices, 0, {})

ExchangeFields(h) ==
    CASE h = "send_email" -> {"to", "subject"}
      [] h = "get_mailbox" -> {"email"}
      [] h = "create_calendar_event" -> {"start", "end"}
      [] h = "get_calendar_events" -> {"start_date", "end_date"}

\* The fields whose absence makes the handler fail before its SDK call
\* (None handed to str.replace or datetime.fromisoformat).
ExchangeRequired(h) ==
    IF h \in {"create_calendar_event", "get_calendar_events"} THEN ExchangeFields(h) ELSE {}

\* _get_account without the test of self.account: an account is built on
\* every call.
ExchangeHandler_AccountRebuilt(h, cfg, e, req, v, st) ==
    IF "username" \notin cfg \/ "account_rejected" \in e
    THEN [Ret("error", 0, st) EXCEPT !.tried = {"account"}]
    ELSE LET kept == st \cup {"account"}
             r == IF ~(ExchangeRequired(h) \subseteq req) THEN Ret("error", 0, kept)
                  ELSE CallOrError(v, 1, "success", kept)
         IN  [r EXCEPT !.auths = 1, !.authok = TRUE,
                       !.tried = {"account"}, !.built = {"account"}]

\* _get_account comes first: it hands Credentials and Account whatever the
\* configuration holds, without a check of its own. A username of None fails
\* at '"@" in username'; whether exchangelib takes the other arguments is the
\* library's choice ("account_rejected" in e: Account(...) raises). The account
\* is kept, and the session it carries is counted as the authentication.
\* Every exception ends in the error envelope.
ExchangeHandler(h, cfg, e, req, v, st) ==
    IF "account" \notin st /\ ("username" \notin cfg \/ "account_rejected" \in e)
    THEN [Ret("error", 0, st) EXCEPT !.tried = {"account"}]
    ELSE LET fresh == "account" \notin st
             kept == st \cup {"account"}
             made == IF fresh THEN {"account"} ELSE {}
             r == IF ~(ExchangeRequired(h) \subseteq req) THEN Ret("error", 0, kept)
                  ELSE CallOrError(v, 1, "success", kept)
         IN  [r EXCEPT !.auths = IF fresh THEN 1 ELSE 0, !.authok = fresh,
                       !.tried = made, !.built = made]

\* ---- ESXi -----------------------------------------------------------------
\* test_connection (line 247) is declared without "async" although it awaits
\* _authenticate; it is read here as the coroutine its body needs it to be.

ESXiServices ==
    {"list_vms", "get_vm_info", "power_on_vm", "power_off_vm", "restart_vm",
     "get_vm_power_state", "test_connection"}

\* _authenticate as outbound call n: the answer's body becomes _session_id,
\* so an empty body leaves a session id that tests as false, and the instance
\* counts as authenticated once it holds a session id that tests as true.
ESXiAuthenticate(v, n, st) ==
    [ok |-> Vendor(v, n) # "fail",
     inst |-> IF Vendor(v, n) = "ok" THEN st \cup {"_session_id"} ELSE st]

ESXiSetup(cfg, e, v) ==
    IF ~({"host", "username", "password"} \subseteq cfg) THEN SetupRet("False", {}, 0, {})
    ELSE LET a == ESXiAuthenticate(v, 1, {"_api_base"})
         IN  IF ~a.ok THEN [SetupRet("False", {}, 1, a.inst) EXCEPT !.auths = 1]
             ELSE [SetupRet("True", ESXiServices, 1, a.inst)
                      EXCEPT !.auths = 1, !.authok = "_session_id" \in a.inst]

ESXiRequired(h) == IF h \in {"list_vms", "test_connection"} THEN {} ELSE {"vm_id"}

ESXiHandler(h, cfg, req, v, st) ==
    IF ~(ESXiRequired(h) \subseteq req) THEN Ret("error", 0, st)
    ELSE IF h = "test_connection" /\ "_session_id" \notin st
         THEN LET a == ESXiAuthenticate(v, 1, st)
              IN  IF ~a.ok THEN [Ret("error", 1, a.inst) EXCEPT !.auths = 1]
                  ELSE [CallOrError(v, 2, "success", a.inst)
                           EXCEPT !.auths = 1, !.authok = "_session_id" \in a.inst]
    ELSE CallOrError(v, 1, "success", st)

\* ---- Docker ---------------------------------------------------------------

DockerServices ==
    {"list_containers", "start_container", "stop_container", "restart_container",
     "get_container_stats", "get_container_logs"}

DockerSetup(cfg, e, v) == SetupRet("True", DockerServices, 0, {})

\* "localhost" in a request: the host it names is "localhost".
DockerFields(h) ==
    IF h = "list_containers" THEN {"host", "localhost"}
    ELSE {"host", "localhost", "container_id"}

\* The host strings a request may carry, and the default.
DockerHosts == {"local", "localhost", "docker1"}

\* data.get("host", "local"): a request naming a host names "docker1", or
\* "localhost" when it says so.
DockerHost(req) ==
    IF "host" \notin req THEN "local"
    ELSE IF "localhost" \in req THEN "localhost"
    ELSE "docker1"

\* The base_url _get_client builds the client with, as the pieces of the
\* string. No host of DockerHosts starts with a scheme or holds a colon, so
\* it is the socket for "local" and "localhost" and tcp://<host>:2375 else.
DockerBaseUrl(host) ==
    IF host = "local" \/ host = "localhost"
    THEN <<"unix:///var/run/docker.sock">>
    ELSE <<"tcp://", host, ":2375">>

\* _get_client without the test of the cache: a client is built on every call.
DockerGetClient_NoCacheTest(host, e, st) ==
    IF "client_fails" \in e
    THEN [ok |-> FALSE, inst |-> st, tried |-> {host}, built |-> {}]
    ELSE [ok |-> TRUE, inst |-> st \cup {host}, tried |-> {host}, built |-> {host}]

\* _get_client: the client kept for the host, else a new one, kept only when
\* its construction returns ("client_fails" in e: DockerClient(...) raises).
DockerGetClient(host, e, st) ==
    IF host \in st THEN [ok |-> TRUE, inst |-> st, tried |-> {}, built |-> {}]
    ELSE IF "client_fails" \in e
         THEN [ok |-> FALSE, inst |-> st, tried |-> {host}, built |-> {}]
    ELSE [ok |-> TRUE, inst |-> st \cup {host}, tried |-> {host}, built |-> {host}]

\* The handlers with _get_client called before the try block.
DockerHandler_ClientOutsideTry(h, cfg, e, req, v, st) ==
    IF h # "list_containers" /\ "container_id" \notin req
    THEN Refuse("container_id is required", st)
    ELSE LET c == DockerGetClient(DockerHost(req), e, st)
             failed(n) == [Ret("error", n, c.inst) EXCEPT !.err = "str(e)"]
             r == IF ~c.ok THEN Ret("raise", 0, c.inst)
                  ELSE IF h = "list_containers"
                       THEN IF Vendor(v, 1) = "fail" THEN failed(1)
                            ELSE Ret("success", 1, c.inst)
                  ELSE IF Vendor(v, 1) = "empty"
                       THEN [Ret("error", 1, c.inst)
                                EXCEPT !.err = "Container <id> not found"]
                  ELSE IF Vendor(v, 1) = "fail" THEN failed(1)
                  ELSE IF Vendor(v, 2) = "fail" THEN failed(2)
                  ELSE Ret("success", 2, c.inst)
         IN  [r EXCEPT !.tried = c.tried, !.built = c.built]

\* list_containers: one call; the others: containers.get, whose empty answer
\* is docker.errors.NotFound, then the operation. Every exception, that of
\* _get_client included, ends in the error envelope.
DockerHandler(h, cfg, e, req, v, st) ==
    IF h # "list_containers" /\ "container_id" \notin req
    THEN Refuse("container_id is required", st)
    ELSE LET c == DockerGetClient(DockerHost(req), e, st)
             failed(n) == [Ret("error", n, c.inst) EXCEPT !.err = "str(e)"]
             r == IF ~c.ok THEN failed(0)
                  ELSE IF h = "list_containers"
                       THEN IF Vendor(v, 1) = "fail" THEN failed(1)
                            ELSE Ret("success", 1, c.inst)
                  ELSE IF Vendor(v, 1) = "empty"
                       THEN [Ret("error", 1, c.inst)
                                EXCEPT !.err = "Container <id> not found"]
                  ELSE IF Vendor(v, 1) = "fail" THEN failed(1)
                  ELSE IF Vendor(v, 2) = "fail" THEN failed(2)
                  ELSE Ret("success", 2, c.inst)
         IN  [r EXCEPT !.tried = c.tried, !.built = c.built]

\* ---- SharePoint on-premises -----------------------------------------------

SharePointServices ==
    {"get_site", "get_list", "create_list_item", "upload_file", "set_permissions"}

SharePointSetup(cfg, e, v) == SetupRet("True", SharePointServices, 0, {})

SharePointFields(h) ==
    CASE h = "get_site" -> {"site_url"}
      [] h \in {"get_list", "create_list_item"} -> {"site_url", "list_name"}
      [] h = "upload_file" -> {"site_url", "library_name", "file_path", "file_content"}
      [] h = "set_permissions" -> {"site_url", "item_path", "user", "permission_level"}

\* Every handler: site_url (request, else default_site) and its fields, then
\* _get_auth with each request; every exception ends in the error envelope.
\* create_list_item: form digest, list metadata, item POST. upload_file: form
\* digest, file POST. set_permissions answers "requires CSOM" without a call.
SharePointHandler(h, cfg, req, v, st) ==
    LET site_url == ResolveDefault("site_url", "default_site", req, cfg)
        r == IF ~((SharePointFields(h) \ {"site_url"}) \subseteq req)
             THEN Ret("error", 0, st)
             ELSE IF site_url = "none" THEN Ret("error", 0, st)
             ELSE IF h = "set_permissions" THEN Ret("error", 0, st)
             ELSE IF ~({"username", "password"} \subseteq cfg) THEN Ret("error", 0, st)
             ELSE IF h = "create_list_item"
                  THEN IF Vendor(v, 1) # "ok" THEN Ret("error", 1, st)
                       ELSE IF Vendor(v, 2) # "ok" THEN Ret("error", 2, st)
                       ELSE CallOrError(v, 3, "success", st)
             ELSE IF h = "upload_file"
                  THEN IF Vendor(v, 1) # "ok" THEN Ret("error", 1, st)
                       ELSE CallOrError(v, 2, "success", st)
             ELSE CallOrError(v, 1, "success", st)
    IN  [r EXCEPT !.used = site_url]

\* ---- Cloudflare -----------------------------------------------------------

CloudflareServices ==
    {"list_zones", "get_zone", "list_dns_records", "create_dns_record",
     "update_dns_record", "delete_dns_record", "purge_cache"}

\* async_setup with the services registered before the connection test.
CloudflareSetup_RegistersBeforeTest(cfg, e, v) ==
    IF "lib" \notin e THEN SetupRet("False", {}, 0, {})
    ELSE IF "api_token" \notin cfg /\ ~({"api_key", "email"} \subseteq cfg)
         THEN SetupRet("False", {}, 0, {})
    ELSE IF Vendor(v, 1) = "fail"
         THEN SetupRet("False", CloudflareServices, 1, {"_cf"})
    ELSE SetupRet("True", CloudflareServices, 1, {"_cf"})

\* The package, then api_token or api_key with email, then the client and one
\* zones.get() before anything is registered; any exception gives False.
CloudflareSetup(cfg, e, v) ==
    IF "lib" \notin e THEN SetupRet("False", {}, 0, {})
    ELSE IF "api_token" \notin cfg /\ ~({"api_key", "email"} \subseteq cfg)
         THEN SetupRet("False", {}, 0, {})
    ELSE IF Vendor(v, 1) = "fail" THEN SetupRet("False", {}, 1, {"_cf"})
    ELSE SetupRet("True", CloudflareServices, 1, {"_cf"})

CloudflareRequired(h) ==
    CASE h = "list_zones" -> {}
      [] h \in {"get_zone", "list_dns_records", "purge_cache"} -> {"zone_id"}
      [] h = "create_dns_record" -> {"zone_id", "type", "name", "content"}
      [] h \in {"update_dns_record", "delete_dns_record"} -> {"zone_id", "record_id"}

\* The fields of a DNS record that update_dns_record may replace. A request
\* holding "falsy" gives those of them it holds the values "", 0 and False.
DnsRecordFields == {"type", "name", "content", "ttl", "proxied"}

\* The ones the requests of the model carry: name for the three the handler
\* tests for truth, ttl and proxied for the two it tests against None.
DnsRequestFields == {"name", "ttl", "proxied"}

CloudflareFields(h) ==
    CASE h = "list_zones" -> {"name"}
      [] h = "purge_cache" -> {"zone_id", "purge_everything", "files", "tags"}
      [] h = "update_dns_record" ->
            CloudflareRequired(h) \cup DnsRequestFields \cup {"falsy"}
      [] OTHER -> CloudflareRequired(h)

\* update_data with every field tested for truth.
UpdateData_TruthOnly(req) ==
    {f \in DnsRecordFields : f \in req /\ "falsy" \notin req}

\* update_data: the fields taken from the request, the others coming from the
\* existing record. type, name and content: "in data and data[f]"; ttl and
\* proxied: "in data and data[f] is not None".
UpdateData(req) ==
    {f \in {"type", "name", "content"} : f \in req /\ "falsy" \notin req}
        \cup {f \in {"ttl", "proxied"} : f \in req}

\* update_dns_record reads the record and then puts it; purge_cache needs
\* purge_everything, files or tags.
CloudflareHandler(h, cfg, req, v, st) ==
    IF "_cf" \notin st THEN Ret("error", 0, st)
    ELSE IF ~(CloudflareRequired(h) \subseteq req) THEN Ret("error", 0, st)
    ELSE IF h = "purge_cache" /\ req \cap {"purge_everything", "files", "tags"} = {}
         THEN Ret("error", 0, st)
    ELSE IF h = "update_dns_record"
         THEN IF Vendor(v, 1) = "fail" THEN Ret("error", 1, st)
              ELSE [CallOrError(v, 2, "success", st) EXCEPT !.fromReq = UpdateData(req)]
    ELSE CallOrError(v, 1, "success", st)

\* ---- Bot plugins: Telegram, Slack bot, Discord bot, Teams bot ----------------

BotServices == {"send_message", "get_bot_status", "register_with_interpreter"}

\* service_registry.get_service("bot_interpreter", "register_bot") and the call
\* of what it returns, whose exceptions async_setup swallows.
\* "interpreter" in e: the bot interpreter has registered register_bot.
AutoRegister_ExceptionEscapes(r, e) ==
    IF "interpreter" \in e /\ "interpreter_raises" \in e
    THEN [r EXCEPT !.ret = "raise", !.interp = 1]
    ELSE [r EXCEPT !.interp = IF "interpreter" \in e THEN 1 ELSE 0]

AutoRegister(r, e) == [r EXCEPT !.interp = IF "interpreter" \in e THEN 1 ELSE 0]

\* register_with_interpreter: bot_id, the interpreter, and its answer as is.
\* "interpreter_raises" in e: register_bot raises.
RegisterWithInterpreter(e, req, st) ==
    IF "bot_id" \notin req THEN Refuse("bot_id is required", st)
    ELSE IF "interpreter" \notin e THEN Refuse("Bot Interpreter not available", st)
    ELSE IF "interpreter_raises" \in e
         THEN [Ret("error", 0, st) EXCEPT !.interp = 1, !.err = "str(e)"]
    ELSE [Ret("passthrough", 0, st) EXCEPT !.interp = 1]

BotFields(h, target) ==
    CASE h = "send_message" -> {target, "message"}
      [] h = "get_bot_status" -> {}
      [] h = "register_with_interpreter" -> {"bot_id"}

\* Telegram and Slack bot catch one class, "except TelegramError" / "except
\* SlackApiError", where the other plugins catch Exception: a failure the SDK
\* raises as that class is handled, any other exception leaves the method.
\* "foreign_error" in e: the SDK call fails with an exception of another class.
SdkFailure(e, handled) == IF "foreign_error" \in e THEN "raise" ELSE handled

\* Telegram and Slack bot: the token, the client, one get_me() / auth_test()
\* whose SDK error gives False, then the services and the interpreter.
TokenBotSetup(cfg, e, v) ==
    IF "bot_token" \notin cfg THEN SetupRet("False", {}, 0, {})
    ELSE IF Vendor(v, 1) = "fail"
         THEN [SetupRet(SdkFailure(e, "False"), {}, 1, {"_bot"}) EXCEPT !.auths = 1]
    ELSE AutoRegister([SetupRet("True", BotServices, 1, {"_bot"})
                          EXCEPT !.auths = 1, !.authok = TRUE], e)

\* send_message: the client, the target and the text, one send, one event.
\* get_bot_status: one get_me() / auth_test().
TokenBotHandler_EmitsBeforeSend(h, target, e, req, v, st) ==
    IF h = "register_with_interpreter" THEN RegisterWithInterpreter(e, req, st)
    ELSE IF "_bot" \notin st THEN Ret("error", 0, st)
    ELSE IF h = "get_bot_status"
         THEN IF Vendor(v, 1) = "fail" THEN Ret(SdkFailure(e, "error"), 1, st)
              ELSE Ret("success", 1, st)
    ELSE IF ~({target, "message"} \subseteq req) THEN Ret("error", 0, st)
    ELSE IF Vendor(v, 1) = "fail"
         THEN [Ret(SdkFailure(e, "error"), 1, st) EXCEPT !.emits = 1]
    ELSE [Ret("success", 1, st) EXCEPT !.emits = 1]

TokenBotHandler(h, target, e, req, v, st) ==
    IF h = "register_with_interpreter" THEN RegisterWithInterpreter(e, req, st)
    ELSE IF "_bot" \notin st THEN Ret("error", 0, st)
    ELSE IF h = "get_bot_status"
         THEN IF Vendor(v, 1) = "fail" THEN Ret(SdkFailure(e, "error"), 1, st)
              ELSE Ret("success", 1, st)
    ELSE IF ~({target, "message"} \subseteq req) THEN Ret("error", 0, st)
    ELSE IF Vendor(v, 1) = "fail" THEN Ret(SdkFailure(e, "error"), 1, st)
    ELSE [Ret("success", 1, st) EXCEPT !.emits = 1]

TelegramSetup(cfg, e, v) == TokenBotSetup(cfg, e, v)

TelegramHandler(h, cfg, e, req, v, st) == TokenBotHandler(h, "chat_id", e, req, v, st)

SlackBotSetup(cfg, e, v) == TokenBotSetup(cfg, e, v)

SlackBotHandler(h, cfg, e, req, v, st) == TokenBotHandler(h, "channel", e, req, v, st)

\* Discord: the package, the token, the bot object, the login started as a
\* background task, the services; the interpreter only if the bot already has
\* a user, which it has not before the task ran.
DiscordSetup(cfg, e, v) ==
    IF "lib" \notin e THEN SetupRet("False", {}, 0, {})
    ELSE IF "bot_token" \notin cfg THEN SetupRet("False", {}, 0, {})
    ELSE SetupRet("True", BotServices, 0, {"_bot", "task"})

DiscordFields(h) ==
    IF h = "send_message" THEN {"channel_id", "message", "channel:cached"}
    ELSE BotFields(h, "channel_id")

\* "user" / "ready" in st: the login task has set bot.user / bot.is_ready().
\* "channel:cached" in req: get_channel finds the channel in the bot's cache.
DiscordHandler_ReadinessUntested(h, cfg, e, req, v, st) ==
    IF h = "register_with_interpreter" THEN RegisterWithInterpreter(e, req, st)
    ELSE IF "_bot" \notin st THEN Refuse("Bot not initialized", st)
    ELSE IF h = "get_bot_status"
         THEN IF "user" \in st THEN Ret("success", 0, st)
              ELSE Refuse("Bot not connected", st)
    ELSE IF ~({"channel_id", "message"} \subseteq req)
         THEN Refuse("channel_id and message are required", st)
    ELSE IF "channel:cached" \notin req THEN Refuse("Channel not found", st)
    ELSE IF Vendor(v, 1) = "fail" THEN [Ret("error", 1, st) EXCEPT !.err = "str(e)"]
    ELSE [Ret("success", 1, st) EXCEPT !.emits = 1]

DiscordHandler(h, cfg, e, req, v, st) ==
    IF h = "register_with_interpreter" THEN RegisterWithInterpreter(e, req, st)
    ELSE IF h = "get_bot_status"
         THEN IF "_bot" \notin st THEN Refuse("Bot not initialized", st)
              ELSE IF "user" \in st THEN Ret("success", 0, st)
              ELSE Refuse("Bot not connected", st)
    ELSE IF "_bot" \notin st \/ "ready" \notin st
         THEN Refuse("Bot not initialized or not ready", st)
    ELSE IF ~({"channel_id", "message"} \subseteq req)
         THEN Refuse("channel_id and message are required", st)
    ELSE IF "channel:cached" \notin req THEN Refuse("Channel not found", st)
    ELSE IF Vendor(v, 1) = "fail" THEN [Ret("error", 1, st) EXCEPT !.err = "str(e)"]
    ELSE [Ret("success", 1, st) EXCEPT !.emits = 1]

\* Teams bot: app_id and app_password, the services, the interpreter.
TeamsBotSetup(cfg, e, v) ==
    IF ~({"app_id", "app_password"} \subseteq cfg) THEN SetupRet("False", {}, 0, {})
    ELSE AutoRegister(SetupRet("True", BotServices, 0, {"_app_id"}), e)

\* send_message emits teams.message_sent and reports success: nothing is sent.
TeamsBotHandler(h, cfg, e, req, v, st) ==
    IF h = "register_with_interpreter" THEN RegisterWithInterpreter(e, req, st)
    ELSE IF h = "get_bot_status" THEN Ret("success", 0, st)
    ELSE IF ~({"channel_id", "message"} \subseteq req) THEN Ret("error", 0, st)
    ELSE [Ret("success", 0, st) EXCEPT !.emits = 1]

\* ---- Microsoft Graph Exchange ---------------------------------------------

GraphExchangeServices == {"send_email", "get_messages", "create_calendar_event"}

\* "dependency" in e: get_dependency("microsoft_graph") returns the integration.
GraphExchangeSetup(cfg, e, v) ==
    IF "dependency" \notin e THEN SetupRet("False", {}, 0, {})
    ELSE SetupRet("True", GraphExchangeServices, 0, {})

GraphExchangeFields(h) ==
    CASE h = "send_email" -> {"to", "subject"}
      [] h = "get_messages" -> {"user_id"}
      [] h = "create_calendar_event" -> {"subject", "start"}

\* The dependency, then one graph_request whose answer is returned as it is
\* and whose exception is not caught.
GraphExchangeHandler_DependencyUntested(h, cfg, e, req, v, st) ==
    CallOrRaise(v, 1, "passthrough", st)

GraphExchangeHandler(h, cfg, e, req, v, st) ==
    IF "dependency" \notin e
    THEN [Ret("raise", 0, st) EXCEPT !.err = "microsoft_graph integration not available"]
    ELSE CallOrRaise(v, 1, "passthrough", st)

\* ---- AI assistant ---------------------------------------------------------

AIAssistantServices == {"query", "analyze_logs", "enhance_workflow", "generate_workflow"}

AIAssistantSetup(cfg, e, v) == SetupRet("True", AIAssistantServices, 0, {"ai_helper"})

AIAssistantRequired(h) ==
    CASE h = "query" -> {"question"}
      [] h = "analyze_logs" -> {"log_data"}
      [] h = "enhance_workflow" -> {"workflow"}
      [] h = "generate_workflow" -> {"description"}

AIAssistantFields(h) == AIAssistantRequired(h) \cup {"provider"}

\* The AIHelper async_setup builds from the configuration.
AIAssistantHelper(cfg) ==
    [gemini_api_key |-> "gemini_api_key" \in cfg,
     chatgpt_api_key |-> "chatgpt_api_key" \in cfg,
     azure_openai_api_key |-> "azure_openai_api_key" \in cfg,
     azure_openai_endpoint |-> "azure_openai_endpoint" \in cfg,
     azure_openai_deployment |-> "azure_openai_deployment" \in cfg,
     default_provider |-> "gemini"]

\* The attributes of the helper that hold its lazily built clients.
AIClientKeys == {"gemini", "chatgpt", "azure"}

\* The required field, then one ai_helper.query; a request naming a provider
\* names "chatgpt", one that does not gets "auto". Exceptions are re-raised.
AIAssistantHandler(h, cfg, req, v, st) ==
    IF ~(AIAssistantRequired(h) \subseteq req) THEN Ret("raise", 0, st)
    ELSE LET had == st \cap AIClientKeys
             r == AIHelperQuery(AIAssistantHelper(cfg), had,
                                IF "provider" \in req THEN "chatgpt" ELSE "auto",
                                TRUE, Vendor(v, 1) # "fail")
             kept == st \cup r.clients
         IN  IF r.backend = "none" THEN Ret("raise", 0, st)
             ELSE [Ret(IF r.out = "ok" THEN "success" ELSE "raise", 1, kept)
                      EXCEPT !.tried = r.clients \ had, !.built = r.clients \ had]

\* ---- _extract_json_from_response ---------------------------------------------

\* A response text is a sequence of tokens: the braces, the members "a" and
\* "b" (a key with a scalar value), "k:" (a key whose value follows), "txt"
\* (prose) and "fence" (three backticks, with the json tag if there is one).
\* None is a text no JSON parser accepts.
None == <<"None">>

\* json.loads accepts the tokens as one object: empty, one scalar member, or
\* one member that is an object.
RECURSIVE JsonLoads(_)
JsonLoads(s) ==
    /\ Len(s) >= 2 /\ s[1] = "{" /\ s[Len(s)] = "}"
    /\ LET body == SubSeq(s, 2, Len(s) - 1)
       IN  \/ body \in {<<>>, <<"a">>, <<"b">>}
           \/ Len(body) >= 3 /\ body[1] = "k:" /\ JsonLoads(Tail(body))

Least(S) == CHOOSE x \in S : \A y \in S : x <= y

Greatest(S) == CHOOSE x \in S : \A y \in S : x >= y

\* re.search(r'\{[\s\S]*\}', text): from the leftmost opening brace to the
\* last closing brace behind it, None without such a pair.
BraceMatch(t) ==
    LET opens == {i \in 1..Len(t) : t[i] = "{"}
    IN  IF opens = {} THEN None
        ELSE LET i == Least(opens)
                 closes == {j \in (i + 1)..Len(t) : t[j] = "}"}
             IN  IF closes = {} THEN None ELSE SubSeq(t, i, Greatest(closes))

\* re.search of the fenced pattern: the leftmost fence that an opening brace
\* follows, up to the last closing brace that a fence follows; group 1.
FenceMatch(t) ==
    LET ends(p) == {q \in (p + 2)..(Len(t) - 1) : t[q] = "}" /\ t[q + 1] = "fence"}
        starts == {p \in 1..(Len(t) - 1) :
                      t[p] = "fence" /\ t[p + 1] = "{" /\ ends(p) # {}}
    IN  IF starts = {} THEN None
        ELSE LET p == Least(starts)
             IN  SubSeq(t, p + 1, Greatest(ends(p)))

\* The brace match if it parses, else the fenced match if it parses, else None.
ExtractJsonFromResponse(t) ==
    IF JsonLoads(BraceMatch(t)) THEN BraceMatch(t)
    ELSE IF JsonLoads(FenceMatch(t)) THEN FenceMatch(t)
    ELSE None

\* ---- The host --------------------------------------------------------------

Plugins ==
    {"ai-assistant", "bitwarden", "calendar-sync", "cloudflare", "discord_bot",
     "docker", "esxi", "exchange_onprem", "homeassistant", "jira-integration",
     "mattermost", "microsoft-graph-exchange", "microsoft-teams",
     "microsoft_teams_bot", "netbox", "nextcloud", "otobo", "sharepoint_onprem",
     "slack-notifications", "slack_bot", "smtp-standard", "sosafe", "telegram",
     "vaultwarden", "webhook-generic", "wiki-js"}

\* The configuration keys whose presence the plugin's code tests.
ConfigKeys(p) ==
    CASE p = "ai-assistant" ->
            {"gemini_api_key", "chatgpt_api_key", "azure_openai_api_key",
             "azure_openai_endpoint", "azure_openai_deployment"}
      [] p = "bitwarden" -> {"client_id", "client_secret", "default_organization_id"}
      [] p = "calendar-sync" -> {"api_key", "provider:other"}
      [] p = "cloudflare" -> {"api_token", "api_key", "email"}
      [] p \in {"discord_bot", "slack_bot", "telegram"} -> {"bot_token"}
      [] p = "esxi" -> {"host", "username", "password"}
      [] p = "exchange_onprem" -> {"server_url", "username", "password"}
      [] p = "homeassistant" -> {"base_url", "access_token"}
      [] p = "jira-integration" -> {"server_url", "username", "api_token", "default_project"}
      [] p \in {"mattermost", "wiki-js"} -> {"server_url", "api_token"}
      [] p \in {"microsoft-teams", "slack-notifications"} -> {"webhook_url"}
      [] p = "microsoft_teams_bot" -> {"app_id", "app_password"}
      [] p = "netbox" -> {"base_url", "api_token"}
      [] p = "nextcloud" -> {"server_url", "username", "password"}
      [] p = "otobo" -> {"server_url", "username", "password", "default_queue"}
      [] p = "sharepoint_onprem" -> {"username", "password", "default_site"}
      [] p = "sosafe" -> {"api_url", "api_key"}
      [] p = "webhook-generic" -> {"default_url"}
      [] OTHER -> {}

\* What the process around the plugin may or may not provide.
EnvFlags(p) ==
    CASE p = "cloudflare" -> {"lib"}
      [] p = "exchange_onprem" -> {"lib", "account_rejected"}
      [] p = "discord_bot" -> {"lib", "interpreter", "interpreter_raises"}
      [] p \in {"slack_bot", "telegram"} ->
            {"interpreter", "interpreter_raises", "foreign_error"}
      [] p = "microsoft_teams_bot" -> {"interpreter", "interpreter_raises"}
      [] p = "microsoft-graph-exchange" -> {"dependency"}
      [] OTHER -> {}

\* The request fields a handler reads that decide what it does.
Fields(p, h) ==
    CASE p = "ai-assistant" -> AIAssistantFields(h)
      [] p = "bitwarden" -> BitwardenFields(h)
      [] p = "calendar-sync" -> CalendarFields(h)
      [] p = "cloudflare" -> CloudflareFields(h)
      [] p = "discord_bot" -> DiscordFields(h)
      [] p = "docker" -> DockerFields(h)
      [] p = "esxi" -> ESXiRequired(h)
      [] p = "exchange_onprem" -> ExchangeFields(h)
      [] p = "homeassistant" -> HomeAssistantFields(h)
      [] p = "jira-integration" -> JiraFields(h)
      [] p = "mattermost" -> MattermostRequired(h)
      [] p = "microsoft-graph-exchange" -> GraphExchangeFields(h)
      [] p = "microsoft-teams" -> TeamsFields(h)
      [] p = "microsoft_teams_bot" -> BotFields(h, "channel_id")
      [] p = "netbox" -> NetBoxFields(h)
      [] p = "nextcloud" -> NextcloudRequired(h)
      [] p = "otobo" -> OtoboFields(h)
      [] p = "sharepoint_onprem" -> SharePointFields(h)
      [] p = "slack-notifications" -> SlackFields(h)
      [] p = "slack_bot" -> BotFields(h, "channel")
      [] p = "smtp-standard" -> {"to", "subject"}
      [] p = "sosafe" -> SoSafeRequired(h)
      [] p = "telegram" -> BotFields(h, "chat_id")
      [] p = "webhook-generic" -> {"url", "payload"}
      [] p = "wiki-js" -> WikiJSFields(h)

\* The outbound calls async_setup has in its code.
SetupCalls(p) == IF p \in {"cloudflare", "esxi", "slack_bot", "telegram"} THEN 1 ELSE 0

\* The outbound calls the handler has on the longest path through its code.
HandlerCalls(p, h) ==
    CASE p = "netbox" /\ h = "create_device" -> 5
      [] p = "netbox" /\ h = "update_device" -> 4
      [] p = "netbox" /\ h = "delete_device" -> 3
      [] p = "netbox" /\ h = "get_device" -> 2
      [] p = "sharepoint_onprem" /\ h = "create_list_item" -> 3
      [] p = "sharepoint_onprem" /\ h = "upload_file" -> 2
      [] p = "sharepoint_onprem" /\ h = "set_permissions" -> 0
      [] p = "bitwarden" -> 2
      [] p = "docker" /\ h # "list_containers" -> 2
      [] p = "esxi" /\ h = "test_connection" -> 2
      [] p = "cloudflare" /\ h = "update_dns_record" -> 2
      [] p \in {"smtp-standard", "microsoft_teams_bot"} -> 0
      [] h = "register_with_interpreter" -> 0
      [] p = "discord_bot" /\ h = "get_bot_status" -> 0
      [] OTHER -> 1

\* plugin.async_setup() as the host awaits it.
AsyncSetup(p, cfg, e, v) ==
    CASE p = "ai-assistant" -> AIAssistantSetup(cfg, e, v)
      [] p = "bitwarden" -> BitwardenSetup(cfg, e, v)
      [] p = "calendar-sync" -> CalendarSetup(cfg, e, v)
      [] p = "cloudflare" -> CloudflareSetup(cfg, e, v)
      [] p = "discord_bot" -> DiscordSetup(cfg, e, v)
      [] p = "docker" -> DockerSetup(cfg, e, v)
      [] p = "esxi" -> ESXiSetup(cfg, e, v)
      [] p = "exchange_onprem" -> ExchangeSetup(cfg, e, v)
      [] p = "homeassistant" -> HomeAssistantSetup(cfg, e, v)
      [] p = "jira-integration" -> JiraSetup(cfg, e, v)
      [] p = "mattermost" -> MattermostSetup(cfg, e, v)
      [] p = "microsoft-graph-exchange" -> GraphExchangeSetup(cfg, e, v)
      [] p = "microsoft-teams" -> TeamsSetup(cfg, e, v)
      [] p = "microsoft_teams_bot" -> TeamsBotSetup(cfg, e, v)
      [] p = "netbox" -> NetBoxSetup(cfg, e, v)
      [] p = "nextcloud" -> NextcloudSetup(cfg, e, v)
      [] p = "otobo" -> OtoboSetup(cfg, e, v)
      [] p = "sharepoint_onprem" -> SharePointSetup(cfg, e, v)
      [] p = "slack-notifications" -> SlackSetup(cfg, e, v)
      [] p = "slack_bot" -> SlackBotSetup(cfg, e, v)
      [] p = "smtp-standard" -> SmtpSetup(cfg, e, v)
      [] p = "sosafe" -> SoSafeSetup(cfg, e, v)
      [] p = "telegram" -> TelegramSetup(cfg, e, v)
      [] p = "vaultwarden" -> VaultwardenSetup(cfg, e, v)
      [] p = "webhook-generic" -> WebhookSetup(cfg, e, v)
      [] p = "wiki-js" -> WikiJSSetup(cfg, e, v)

\* The service_func the registry holds for (p, h), called with a request.
Handle(p, h, cfg, e, req, v, st) ==
    CASE p = "ai-assistant" -> AIAssistantHandler(h, cfg, req, v, st)
      [] p = "bitwarden" -> BitwardenHandler(h, cfg, req, v, st)
      [] p = "calendar-sync" -> CalendarHandler(h, cfg, req, v, st)
      [] p = "cloudflare" -> CloudflareHandler(h, cfg, req, v, st)
      [] p = "discord_bot" -> DiscordHandler(h, cfg, e, req, v, st)
      [] p = "docker" -> DockerHandler(h, cfg, e, req, v, st)
      [] p = "esxi" -> ESXiHandler(h, cfg, req, v, st)
      [] p = "exchange_onprem" -> ExchangeHandler(h, cfg, e, req, v, st)
      [] p = "homeassistant" -> HomeAssistantHandler(h, cfg, req, v, st)
      [] p = "jira-integration" -> JiraHandler(h, cfg, req, v, st)
      [] p = "mattermost" -> MattermostHandler(h, cfg, req, v, st)
      [] p = "microsoft-graph-exchange" -> GraphExchangeHandler(h, cfg, e, req, v, st)
      [] p = "microsoft-teams" -> TeamsHandler(h, cfg, req, v, st)
      [] p = "microsoft_teams_bot" -> TeamsBotHandler(h, cfg, e, req, v, st)
      [] p = "netbox" -> NetBoxHandler(h, cfg, req, v, st)
      [] p = "nextcloud" -> NextcloudHandler(h, cfg, req, v, st)
      [] p = "otobo" -> OtoboHandler(h, cfg, req, v, st)
      [] p = "sharepoint_onprem" -> SharePointHandler(h, cfg, req, v, st)
      [] p = "slack-notifications" -> SlackHandler(h, cfg, req, v, st)
      [] p = "slack_bot" -> SlackBotHandler(h, cfg, e, req, v, st)
      [] p = "smtp-standard" -> SmtpHandler(h, cfg, req, v, st)
      [] p = "sosafe" -> SoSafeHandler(h, cfg, req, v, st)
      [] p = "telegram" -> TelegramHandler(h, cfg, e, req, v, st)
      [] p = "webhook-generic" -> WebhookHandler(h, cfg, req, v, st)
      [] p = "wiki-js" -> WikiJSHandler(h, cfg, req, v, st)

\* service_registry.register for each service: the entry is stored under its
\* (domain, service) key, replacing an entry of the same key. func names the
\* handler: the bound method of the run of async_setup that registered it.
Register_Appends(reg, domain, services, func) ==
    reg \cup {<<domain, s, func>> : s \in services}

Register(reg, domain, services, func) ==
    {x \in reg : ~(x[1] = domain /\ x[2] \in services)}
        \cup {<<domain, s, func>> : s \in services}

\* service_registry.get_service: the handler stored under the key, or None.
GetService(reg, domain, service) ==
    IF \E x \in reg : x[1] = domain /\ x[2] = service
    THEN (CHOOSE x \in reg : x[1] = domain /\ x[2] = service)[3]
    ELSE "None"

\* failed: one of the outbound calls async_setup made failed. run: how many
\* times async_setup has run; services: what the last run registered; ever:
\* what any run registered.
NoSetup ==
    [ret |-> "none", calls |-> 0, auths |-> 0, interp |-> 0, failed |-> FALSE,
     run |-> 0, services |-> {}, ever |-> {}]


\* The keys of the instance's client cache: Docker's _clients by host,
\* Exchange's account, the AI helper's client per provider.
CacheKeys(p) ==
    CASE p = "docker" -> DockerHosts
      [] p = "exchange_onprem" -> {"account"}
      [] p = "ai-assistant" -> AIClientKeys
      [] OTHER -> {}

\* What one invocation may meet that the next may not: the Docker daemon
\* refusing the client ("client_fails"), the microsoft_graph integration
\* unloaded since setup (get_dependency is asked again by every handler).
CallEnvs(p, e) ==
    CASE p = "docker" -> {e, e \cup {"client_fails"}}
      [] p = "microsoft-graph-exchange" -> {e, e \ {"dependency"}}
      [] OTHER -> {e}

NoCall ==
    [h |-> "none", req |-> {}, complete |-> FALSE, vendorOk |-> FALSE,
     out |-> "none", calls |-> 0, auths |-> 0, authed |-> FALSE, emits |-> 0,
     interp |-> 0, cached |-> {}, tried |-> {}, built |-> {}, err |-> "none",
     env |-> {}, used |-> "n/a", first |-> "none", fromReq |-> {},
     mutating |-> 0, script |-> <<>>]

\* The two invocations the host may have in flight together.
TaskSlots == {"a", "b"}

\* st: "none" not started, "pending" started and waiting for the event loop,
\* "done" run; seen: the cache keys filled when the task was started;
\* overlap: another task was pending when this one was started.
NoTask ==
    [st |-> "none", h |-> "none", req |-> {}, seen |-> {}, overlap |-> FALSE,
     tried |-> {}, built |-> {}, out |-> "none"]

HostInit ==
    /\ tasks = [i \in TaskSlots |-> NoTask]
    /\ plugin \in Plugins
    /\ config \in SUBSET ConfigKeys(plugin)
    /\ env \in SUBSET EnvFlags(plugin)
    /\ setupRet = NoSetup
    /\ registry = {}
    /\ inst = {}
    /\ authed = FALSE
    /\ last = NoCall

\* No plugin loaded: the other specifications hold the host here.
HostIdle ==
    /\ tasks = [i \in TaskSlots |-> NoTask]
    /\ plugin = "vaultwarden"
    /\ config = {}
    /\ env = {}
    /\ setupRet = NoSetup
    /\ registry = {}
    /\ inst = {}
    /\ authed = FALSE
    /\ last = NoCall

\* One run of async_setup, the n-th of this instance.
RunSetup(n) ==
    /\ \E v \in VendorScripts(SetupCalls(plugin)) :
        LET r == AsyncSetup(plugin, config, env, v)
        IN  /\ setupRet' = [ret |-> r.ret, calls |-> r.calls, auths |-> r.auths,
                            interp |-> r.interp,
                            failed |-> \E i \in 1..r.calls : Vendor(v, i) = "fail",
                            run |-> n, services |-> r.services,
                            ever |-> setupRet.ever \cup r.services]
            /\ registry' = Register(registry, plugin, r.services, n)
            /\ inst' = r.inst
            /\ authed' = r.authok
    /\ UNCHANGED <<plugin, config, env, last, tasks>>
    /\ UNCHANGED <<aiVars, whVars, exVars, logVars>>

\* The host loads the plugin: async_setup runs once per instance.
Setup == setupRet.ret = "none" /\ RunSetup(1)

\* async_setup is run a second time on the loaded instance.
SetupAgain == setupRet.run = 1 /\ RunSetup(2)

\* One handler running on the event loop: from its first statement to its
\* return or raise. No handler of a plugin with a client cache awaits
\* anything between the test of the cache and the write to it.
Invocation(s, req, v, e, r) ==
    /\ last' = [h |-> s[2], req |-> req,
                complete |-> req = Fields(s[1], s[2]),
                vendorOk |-> \A i \in 1..r.calls : Vendor(v, i) = "ok",
                out |-> r.out, calls |-> r.calls, auths |-> r.auths,
                authed |-> authed, emits |-> r.emits,
                interp |-> r.interp,
                cached |-> inst \cap CacheKeys(s[1]),
                tried |-> r.tried, built |-> r.built, err |-> r.err,
                env |-> e, used |-> r.used,
                first |-> IF r.calls >= 1 THEN Vendor(v, 1) ELSE "none",
                fromReq |-> r.fromReq, mutating |-> r.mutating,
                script |-> [i \in 1..r.calls |-> Vendor(v, i)]]
    /\ inst' = r.inst
    /\ authed' = (authed \/ r.authok)

\* The host looks a service up in the registry and calls it with a request.
CallService ==
    /\ \E s \in registry :
        \E req \in SUBSET Fields(s[1], s[2]) :
        \E v \in VendorScripts(HandlerCalls(s[1], s[2])) :
        \E e \in CallEnvs(s[1], env) :
            Invocation(s, req, v, e, Handle(s[1], s[2], config, e, req, v, inst))
    /\ UNCHANGED <<plugin, config, env, setupRet, registry, tasks>>
    /\ UNCHANGED <<aiVars, whVars, exVars, logVars>>

\* The host starts a handler invocation as a task without running it yet
\* (slot "b" is the second to be started).
Invoke ==
    /\ \E i \in TaskSlots :
        /\ tasks[i].st = "none"
        /\ i = "b" => tasks["a"].st # "none"
        /\ \E s \in registry :
            \E req \in SUBSET Fields(s[1], s[2]) :
                tasks' = [tasks EXCEPT ![i] =
                            [st |-> "pending", h |-> s[2], req |-> req,
                             seen |-> inst \cap CacheKeys(s[1]),
                             overlap |-> \E j \in TaskSlots : tasks[j].st = "pending",
                             tried |-> {}, built |-> {}, out |-> "none"]]
    /\ UNCHANGED <<plugin, config, env, setupRet, registry, inst, authed, last>>
    /\ UNCHANGED <<aiVars, whVars, exVars, logVars>>

\* The event loop runs a pending task: the handler runs to its end.
RunTask ==
    /\ \E i \in TaskSlots :
        /\ tasks[i].st = "pending"
        /\ \E v \in VendorScripts(HandlerCalls(plugin, tasks[i].h)) :
           \E e \in CallEnvs(plugin, env) :
            LET t == tasks[i]
                r == Handle(plugin, t.h, config, e, t.req, v, inst)
            IN  /\ Invocation(<<plugin, t.h>>, t.req, v, e, r)
                /\ tasks' = [tasks EXCEPT ![i] =
                                [t EXCEPT !.st = "done", !.tried = r.tried,
                                          !.built = r.built, !.out = r.out]]
    /\ UNCHANGED <<plugin, config, env, setupRet, registry>>
    /\ UNCHANGED <<aiVars, whVars, exVars, logVars>>

\* The login task Discord's async_setup started runs: bot.start(token) logs in
\* and the bot becomes ready, or the login fails and the task ends.
DiscordStart ==
    /\ plugin = "discord_bot"
    /\ "task" \in inst
    /\ \E ok \in BOOLEAN :
        /\ inst' = (inst \ {"task"}) \cup (IF ok THEN {"user", "ready"} ELSE {})
        /\ authed' = (authed \/ ok)
    /\ UNCHANGED <<plugin, config, env, setupRet, registry, last, tasks>>
    /\ UNCHANGED <<aiVars, whVars, exVars, logVars>>

\* The login task ends after the bot had connected (the connection is lost for
\* good, the client closes): is_ready() is false again. async_setup kept no
\* reference to the task and nothing starts another.
DiscordStop ==
    /\ plugin = "discord_bot"
    /\ "ready" \in inst
    /\ inst' = inst \ {"ready"}
    /\ UNCHANGED <<plugin, config, env, setupRet, registry, authed, last, tasks>>
    /\ UNCHANGED <<aiVars, whVars, exVars, logVars>>

(***************************************************************************)
(* Specifications                                                          *)
(***************************************************************************)

\* The pieces the response texts are put together from, and how many of them.
Pieces ==
    {<<"txt">>, <<"fence">>, <<"{", "}">>, <<"{", "a", "}">>, <<"{", "b", "}">>,
     <<"{", "k:", "{", "a", "}", "}">>, <<"{">>, <<"}">>, <<"a">>}

MaxPieces == 4

RECURSIVE Flatten(_)
Flatten(ps) == IF ps = <<>> THEN <<>> ELSE Head(ps) \o Flatten(Tail(ps))

Texts == {Flatten(ps) : ps \in UNION {[1..n -> Pieces] : n \in 0..MaxPieces}}

Unset == <<"unset">>

ExInit ==
    /\ responseText \in Texts
    /\ extracted = Unset

\* No response at hand: the other specifications hold the extraction here.
ExIdle ==
    /\ responseText = <<>>
    /\ extracted = Unset

\* One call of _extract_json_from_response(response_text).
ExtractJson ==
    /\ extracted = Unset
    /\ extracted' = ExtractJsonFromResponse(responseText)
    /\ UNCHANGED responseText
    /\ UNCHANGED <<aiVars, whVars, hostVars, logVars>>

\* ---- analyze_logs and _format_logs_for_ai ----------------------------------

\* max_logs of _format_logs_for_ai.
MaxLogs == 100

\* The longest log_data a request carries.
MaxLogData == 102

\* A log list of n entries, oldest first; entry i stands for the i-th mapping
\* of the list (its timestamp, level, source and message).
LogEntries(n) == [i \in 1..n |-> i]

\* log_data[-max_logs:] if len(log_data) > max_logs else log_data
LogsToAnalyze(log_data) ==
    IF Len(log_data) > MaxLogs
    THEN SubSeq(log_data, Len(log_data) - MaxLogs + 1, Len(log_data))
    ELSE log_data

\* _format_logs_for_ai: one line "[timestamp] level source: message" per entry
\* kept, joined by newlines (the one line "No logs provided.", written as
\* the line of entry 0, for an empty list).
FormatLogsForAI(log_data) ==
    IF log_data = <<>> THEN <<[line |-> 0]>>
    ELSE [i \in 1..Len(LogsToAnalyze(log_data)) |->
            [line |-> LogsToAnalyze(log_data)[i]]]

NoAnalysis == [out |-> "none", prompt |-> <<>>, logs_analyzed |-> 0]

LogInit ==
    /\ logData \in {LogEntries(n) : n \in 0..MaxLogData}
    /\ analysis = NoAnalysis

\* No log request at hand: the other specifications hold it here.
LogIdle ==
    /\ logData = <<>>
    /\ analysis = NoAnalysis

\* One call of analyze_logs(data): an empty log_data raises; else the prompt
\* is built from the formatted logs and handed to ai_helper.query, whose
\* answer (ok) is wrapped or whose exception is raised again.
AnalyzeLogs ==
    /\ analysis = NoAnalysis
    /\ \E ok \in BOOLEAN :
        analysis' =
            IF logData = <<>> THEN [NoAnalysis EXCEPT !.out = "raise"]
            ELSE IF ~ok
            THEN [out |-> "raise", prompt |-> FormatLogsForAI(logData),
                  logs_analyzed |-> 0]
            ELSE [out |-> "success", prompt |-> FormatLogsForAI(logData),
                  logs_analyzed |-> Len(logData)]
    /\ UNCHANGED logData
    /\ UNCHANGED <<aiVars, whVars, hostVars, exVars>>

InitAI == AIInit /\ WHIdle /\ HostIdle /\ ExIdle /\ LogIdle

NextAI == AIQuery

SpecAI == InitAI /\ [][NextAI]_vars

InitWebhook == WHInit /\ AIIdle /\ HostIdle /\ ExIdle /\ LogIdle

NextWebhook == WHSendWebhook

SpecWebhook == InitWebhook /\ [][NextWebhook]_vars

Init == HostInit /\ AIIdle /\ WHIdle /\ ExIdle /\ LogIdle

Next == Setup \/ CallService \/ DiscordStart \/ DiscordStop

Spec == Init /\ [][Next]_vars

\* The plugins that keep a lazily built client.
CachingPlugins == {"docker", "exchange_onprem", "ai-assistant"}

InitTasks == Init /\ plugin \in CachingPlugins

NextTasks == Setup \/ Invoke \/ RunTask

SpecTasks == InitTasks /\ [][NextTasks]_vars

InitExtract == ExInit /\ AIIdle /\ WHIdle /\ HostIdle /\ LogIdle

NextExtract == ExtractJson

SpecExtract == InitExtract /\ [][NextExtract]_vars

InitLogs == LogInit /\ AIIdle /\ WHIdle /\ HostIdle /\ ExIdle

NextLogs == AnalyzeLogs

SpecLogs == InitLogs /\ [][NextLogs]_vars

\* The host with a plugin whose async_setup may be run a second time.
NextReload == Setup \/ SetupAgain \/ CallService

SpecReload == Init /\ [][NextReload]_vars

(***************************************************************************)
(* Claims about AIHelper, checked under SpecAI                             *)
(***************************************************************************)

\* The API key the dispatcher reads as "the provider's credentials".
AIKeySet(c, provider) ==
    IF provider = "gemini" THEN c.gemini_api_key
    ELSE IF provider = "chatgpt" THEN c.chatgpt_api_key
    ELSE IF provider \in {"azure", "azure_openai"} THEN c.azure_openai_api_key
    ELSE FALSE

AIPriority == <<"gemini", "chatgpt", "azure">>

\* The first provider of the fixed order whose key is set, "none" without one.
AIFirstKeyed(c) ==
    LET idx == {i \in 1..Len(AIPriority) : AIKeySet(c, AIPriority[i])}
    IN  IF idx = {} THEN "none"
        ELSE AIPriority[CHOOSE i \in idx : \A j \in idx : i <= j]

\* C2: with provider "auto" and no key set for the default provider, the
\* dispatcher selects the first provider of the order gemini, chatgpt, azure
\* whose key is set and calls no other backend; when that provider is fully
\* configured and its package imports, its backend is the one called; with no
\* key set at all the query raises and no backend is called.
C2_AutoFallsBackInOrder ==
    (aiLast.provider = "auto" /\ ~AIKeySet(aiCfg, aiCfg.default_provider)) =>
        /\ aiLast.selected = AIFirstKeyed(aiCfg)
        /\ aiLast.backend \in {"none", aiLast.selected}
        /\ (AIFirstKeyed(aiCfg) # "none" /\ aiLast.lib
                /\ IsProviderAvailable(aiCfg, AIFirstKeyed(aiCfg)))
             => aiLast.backend = AIFirstKeyed(aiCfg)
        /\ AIFirstKeyed(aiCfg) = "none"
             => (aiLast.out = "raise" /\ aiLast.backend = "none")

\* Default chatgpt without a key, only Azure configured: Azure answered.
C2_Witness ==
    /\ aiLast.provider = "auto"
    /\ aiCfg.default_provider = "chatgpt"
    /\ ~aiCfg.chatgpt_api_key /\ ~aiCfg.gemini_api_key
    /\ IsProviderAvailable(aiCfg, "azure")
    /\ aiLast.selected = "azure" /\ aiLast.backend = "azure" /\ aiLast.out = "ok"

\* C3: an explicit provider name whose credentials are not configured makes
\* query raise with no backend called, whatever the other providers have.
C3_ExplicitWithoutCredentialsRaises ==
    (aiLast.provider \notin {"none", "auto"}
        /\ ~IsProviderAvailable(aiCfg, aiLast.provider)) =>
        (aiLast.out = "raise" /\ aiLast.backend = "none")

\* Explicit azure with key but no endpoint, while Gemini is configured.
C3_Witness ==
    /\ aiLast.provider = "azure"
    /\ aiCfg.azure_openai_api_key /\ ~aiCfg.azure_openai_endpoint
    /\ aiCfg.gemini_api_key /\ aiCfg.chatgpt_api_key
    /\ aiLast.out = "raise" /\ aiLast.backend = "none"

AICanonical(provider) == IF provider = "azure_openai" THEN "azure" ELSE provider

\* C4: with provider "auto", whenever the credentials of the default provider
\* are present the request is routed to the default provider, for each of the
\* names gemini, chatgpt, azure and azure_openai.
C4_AutoRoutesToDefault ==
    (aiLast.provider = "auto"
        /\ aiCfg.default_provider \in {"gemini", "chatgpt", "azure", "azure_openai"}
        /\ IsProviderAvailable(aiCfg, aiCfg.default_provider)) =>
        AICanonical(aiLast.selected) = AICanonical(aiCfg.default_provider)

(***************************************************************************)
(* Claims about send_webhook, checked under SpecWebhook                    *)
(***************************************************************************)

\* The URL a call resolves to: the request's, else the configured default.
WHResolvedUrl == IF whLast.url # WHNoUrl THEN whLast.url ELSE whCfg.default_url

\* The header value a call supplies for key k: the caller's, else the default's.
WHSupplied(k) ==
    IF k \in DOMAIN whLast.custom THEN whLast.custom[k] ELSE whCfg.default_headers[k]

WHSuppliedKeys == DOMAIN whLast.custom \cup DOMAIN whCfg.default_headers

WHBodyMethod ==
    \/ whLast.method \in {"absent", "post"} /\ whLast.sent[1].method = "POST"
    \/ whLast.method = "PUT" /\ whLast.sent[1].method = "PUT"
    \/ whLast.method = "Patch" /\ whLast.sent[1].method = "PATCH"

\* C7: send_webhook with method POST, PUT or PATCH, a resolved URL and no
\* Content-Type key among the default and caller headers sends exactly one
\* request, to the resolved URL, with the payload as JSON body and the header
\* Content-Type: application/json, and on a successful response returns
\* status "sent" with the response's status code; every header the caller or
\* default_headers supplies reaches the request with its supplied value.
C7_WebhookJsonRequest ==
    /\ (whLast.method \in {"absent", "post", "PUT", "Patch"}
            /\ WHResolvedUrl # WHNoUrl
            /\ "Content-Type" \notin WHSuppliedKeys) =>
            /\ Len(whLast.sent) = 1
            /\ WHBodyMethod
            /\ whLast.sent[1].url = WHResolvedUrl
            /\ whLast.sent[1].json =
                    (IF whLast.payload = "absent" THEN "{}" ELSE whLast.payload)
            /\ whLast.sent[1].headers["Content-Type"] = "application/json"
            /\ (whLast.resp = 200) =>
                    (whLast.out = "sent" /\ whLast.status_code = whLast.resp)
    /\ \A i \in 1..Len(whLast.sent) : \A k \in WHSuppliedKeys :
            /\ k \in DOMAIN whLast.sent[i].headers
            /\ whLast.sent[i].headers[k] = WHSupplied(k)

\* The scenario of the specification: POST of {a: 1} to the request's URL,
\* answered 200, with a lower-case content-type header left in place.
C7_Witness ==
    /\ whLast.method = "post" /\ whLast.url = "https://example.test/hook"
    /\ whLast.payload = "{a: 1}" /\ whLast.resp = 200
    /\ "Content-Type" \notin WHSuppliedKeys
    /\ "content-type" \in DOMAIN whLast.custom
    /\ whLast.out = "sent" /\ whLast.status_code = 200
    /\ Len(whLast.sent) = 1
    /\ whLast.sent[1].headers["Content-Type"] = "application/json"

(***************************************************************************)
(* Claims about the plugin contract, checked under Spec                    *)
(***************************************************************************)

\* The credentials, tokens and server URLs a plugin cannot reach its vendor
\* without: the keys its code rejects the absence of.
MandatoryKeys(p) ==
    CASE p = "bitwarden" -> {"client_id", "client_secret"}
      [] p = "calendar-sync" -> {"api_key"}
      [] p \in {"discord_bot", "slack_bot", "telegram"} -> {"bot_token"}
      [] p = "esxi" -> {"host", "username", "password"}
      [] p = "exchange_onprem" -> {"server_url", "username", "password"}
      [] p = "homeassistant" -> {"base_url", "access_token"}
      [] p = "jira-integration" -> {"server_url", "username", "api_token"}
      [] p \in {"mattermost", "wiki-js"} -> {"server_url", "api_token"}
      [] p \in {"microsoft-teams", "slack-notifications"} -> {"webhook_url"}
      [] p = "microsoft_teams_bot" -> {"app_id", "app_password"}
      [] p = "netbox" -> {"base_url", "api_token"}
      [] p \in {"nextcloud", "otobo"} -> {"server_url", "username", "password"}
      [] p = "sharepoint_onprem" -> {"username", "password"}
      [] p = "sosafe" -> {"api_url", "api_key"}
      [] OTHER -> {}

\* A mandatory key is missing (Cloudflare takes a token, or a key with an email).
ConfigMissing ==
    IF plugin = "cloudflare"
    THEN "api_token" \notin config /\ ~({"api_key", "email"} \subseteq config)
    ELSE ~(MandatoryKeys(plugin) \subseteq config)

\* The plugins whose async_setup checks the configuration.
SetupCheckedPlugins ==
    {"homeassistant", "netbox", "esxi", "cloudflare", "telegram", "slack_bot",
     "discord_bot", "microsoft_teams_bot"}

HandlerServed ==
    /\ last.h # "none" /\ last.complete /\ ~ConfigMissing
    /\ last.calls >= 1 /\ last.vendorOk

ServedOut(p, h) ==
    CASE p \in {"webhook-generic", "slack-notifications", "microsoft-teams"} -> "sent"
      [] p = "jira-integration" /\ h = "create_ticket" -> "created"
      [] p = "jira-integration" /\ h = "update_ticket" -> "updated"
      [] p = "jira-integration" /\ h = "get_ticket" -> "bare"
      [] p = "calendar-sync" /\ h = "create_event" -> "created"
      [] p = "calendar-sync" /\ h = "list_events" -> "bare"
      [] p = "microsoft-graph-exchange" -> "passthrough"
      [] OTHER -> "success"

MessageField(p) == IF p = "microsoft-teams" THEN "text" ELSE "message"

MessagingPlugins ==
    {"slack-notifications", "microsoft-teams", "mattermost", "telegram",
     "slack_bot", "discord_bot"}

\* C6: send_message of the Slack-webhook, Teams-webhook, Mattermost, Telegram,
\* Slack-bot and Discord plugins, called without the message text, raises or
\* returns an error and makes no network call.
C6_MissingTextRejectedBeforeAnyCall ==
    (plugin \in MessagingPlugins /\ last.h = "send_message"
        /\ MessageField(plugin) \notin last.req) =>
        (last.out \in {"raise", "error"} /\ last.calls = 0)

\* C8 as stated: a handler invocation makes at most two outbound calls.
C8_AtMostTwoCalls == last.h # "none" => last.calls <= 2

\* The handlers that make more than two calls, and how many.
CallBound(p, h) ==
    CASE p = "netbox" /\ h = "create_device" -> 5
      [] p = "netbox" /\ h = "update_device" -> 4
      [] p = "netbox" /\ h = "delete_device" -> 3
      [] p = "sharepoint_onprem" /\ h = "create_list_item" -> 3
      [] OTHER -> 2

\* C8 as amended: a handler invocation makes at most two outbound calls,
\* except NetBox create_device (at most five: device type, site by slug, site
\* by name, role, POST), update_device (at most four), delete_device (at most
\* three) and SharePoint create_list_item (three: form digest, list metadata,
\* item POST).
C8_CallsWithinHandlerBound ==
    last.h # "none" => last.calls <= CallBound(plugin, last.h)

\* NetBox create_device with a role, the site found by name only: five calls.
C8_Witness ==
    /\ plugin = "netbox" /\ last.h = "create_device" /\ "role" \in last.req
    /\ last.calls = 5 /\ last.out = "success"

C10_NoSecondAuthentication ==
    (last.h # "none" /\ last.authed) => last.auths = 0

\* C11: Docker's client cache. A handler call builds a client only for the
\* host it names and only when the cache has no entry for that host; the
\* client built is stored under that host; an entry present before a call is
\* still there after it and no client is built again for it; a construction
\* that fails leaves the cache as it was.
C11_DockerClientCacheStable ==
    (plugin = "docker" /\ last.h # "none") =>
        /\ last.tried \subseteq {DockerHost(last.req)}
        /\ last.tried \cap last.cached = {}
        /\ last.built \subseteq inst
        /\ last.cached \subseteq inst
        /\ (last.tried \ last.built) \cap inst = {}
        /\ inst \ last.cached = last.built

\* A call naming the host "docker1" served by the client an earlier call built.
C11_Witness ==
    /\ plugin = "docker" /\ "host" \in last.req
    /\ last.cached = {"docker1"} /\ last.tried = {}
    /\ last.out = "success" /\ inst = {"docker1"}

(***************************************************************************)
(* Claims about concurrent invocations, checked under SpecTasks            *)
(***************************************************************************)

\* The task's handler, run on an empty cache with a vendor that answers,
\* would go and build the client for key k.
TaskNeeds(t, k) == k \in Handle(plugin, t.h, config, env, t.req, <<>>, {}).tried

\* Two invocations were in flight together, both started while the cache had
\* no client for key k, both of handlers that need one, and both have run.
ConcurrentFirstUse(k) ==
    /\ \A i \in TaskSlots : tasks[i].st = "done" /\ k \notin tasks[i].seen
                            /\ TaskNeeds(tasks[i], k)
    /\ \E i \in TaskSlots : tasks[i].overlap

SetupRoundTripPlugins == {"esxi", "telegram", "slack_bot", "cloudflare"}

\* C13: in the plugins that authenticate during setup, a failed round-trip
\* makes async_setup return False, not raise, and no service is registered.
C13_FailedSetupLoginReturnsFalse ==
    (plugin \in SetupRoundTripPlugins /\ setupRet.failed) =>
        (setupRet.ret = "False" /\ registry = {})

\* The Discord login task has ended without leaving the bot connected.
DiscordTaskDead ==
    /\ plugin = "discord_bot" /\ setupRet.ret = "True"
    /\ "task" \notin inst /\ "ready" \notin inst

\* C14: once Discord's async_setup has returned True and its background task
\* has ended or failed to connect, the task is not started again, the three
\* services stay registered, and every send_message returns the error
\* "Bot not initialized or not ready" without a send and without an event.
C14_DeadDiscordTaskStaysDead ==
    [][DiscordTaskDead =>
        /\ DiscordTaskDead'
        /\ registry' = registry
        /\ registry = {<<"discord_bot", s, 1>> : s \in BotServices}
        /\ (last' # last /\ last'.h = "send_message") =>
              /\ last'.out = "error" /\ last'.calls = 0 /\ last'.emits = 0
              /\ last'.err = "Bot not initialized or not ready"]_vars

\* A complete send_message refused after the task had connected and ended.
C14_Witness ==
    /\ DiscordTaskDead /\ "user" \in inst
    /\ last.h = "send_message" /\ last.complete
    /\ last.err = "Bot not initialized or not ready" /\ last.calls = 0

\* C15: in the Graph Exchange plugin, a setup that finds no microsoft_graph
\* dependency returns False and registers no service; a registered handler
\* invoked while the dependency is absent raises and sends no Graph request.
C15_GraphDependencyAbsent ==
    plugin = "microsoft-graph-exchange" =>
        /\ (setupRet.ret # "none" /\ "dependency" \notin env) =>
                (setupRet.ret = "False" /\ registry = {} /\ setupRet.calls = 0)
        /\ (last.h # "none" /\ "dependency" \notin last.env) =>
                (last.out = "raise" /\ last.calls = 0)

\* A handler registered by a successful setup is invoked after the dependency
\* was unloaded.
C15_Witness ==
    /\ plugin = "microsoft-graph-exchange"
    /\ setupRet.ret = "True"
    /\ last.h = "send_email"
    /\ "dependency" \notin last.env
    /\ last.out = "raise"

\* ---- Claims about the bot interpreter ---------------------------------------

BotPlugins == {"telegram", "slack_bot", "discord_bot", "microsoft_teams_bot"}

\* async_setup has run with everything it needs but the interpreter: the
\* configuration is complete, the package imports, the login round-trip of
\* Telegram and Slack bot succeeded.
BotSetupOtherwiseFine ==
    /\ plugin \in BotPlugins /\ setupRet.ret # "none"
    /\ ~ConfigMissing /\ ~setupRet.failed
    /\ plugin = "discord_bot" => "lib" \in env

\* C16: in the four chat-bot plugins, with no (bot_interpreter, register_bot)
\* service in the registry async_setup still registers the three services and
\* returns True, and so it does when the interpreter raises during the
\* auto-registration; register_with_interpreter then returns the error
\* envelope without raising and without calling anything, its error being
\* "Bot Interpreter not available" for a request that carries bot_id.
C16_InterpreterAbsenceIsNormal ==
    /\ (BotSetupOtherwiseFine
            /\ ("interpreter" \notin env \/ "interpreter_raises" \in env)) =>
            /\ setupRet.ret = "True"
            /\ registry = {<<plugin, h, 1>> : h \in BotServices}
            /\ "interpreter" \notin env => setupRet.interp = 0
    /\ (plugin \in BotPlugins /\ last.h = "register_with_interpreter"
            /\ "interpreter" \notin last.env) =>
            /\ last.out = "error" /\ last.interp = 0 /\ last.calls = 0
            /\ "bot_id" \in last.req => last.err = "Bot Interpreter not available"

\* Telegram was set up without an interpreter and register_with_interpreter
\* was then called with a bot_id.
C16_Witness ==
    /\ plugin = "telegram" /\ "interpreter" \notin env
    /\ setupRet.ret = "True" /\ setupRet.interp = 0
    /\ last.h = "register_with_interpreter" /\ "bot_id" \in last.req
    /\ last.err = "Bot Interpreter not available"

\* ---- Claims about events ----------------------------------------------------

EmittingBots == {"telegram", "slack_bot", "discord_bot"}

\* C17: send_message of Telegram, Slack bot and Discord emits message_sent
\* once when the vendor send was made and came back, which is when the handler
\* reports success, and not at all when the request was refused before the
\* send or the send failed.
C17_MessageSentFollowsSend ==
    (plugin \in EmittingBots /\ last.h = "send_message") =>
        /\ last.emits \in {0, 1}
        /\ last.emits = 1 <=> (last.calls = 1 /\ last.out = "success")
        /\ (last.calls = 1 /\ last.vendorOk) => last.emits = 1
        /\ last.calls = 0 => last.emits = 0
        /\ last.out \in {"error", "raise"} => last.emits = 0

\* Slack bot sent a message and emitted the event.
C17_Witness ==
    /\ plugin = "slack_bot" /\ last.h = "send_message"
    /\ last.calls = 1 /\ last.vendorOk /\ last.emits = 1

\* ---- Claims about configured defaults ---------------------------------------

\* The request field that has a configured default, and the default's key.
DefaultedField(p, h) ==
    CASE p = "bitwarden" -> <<"organization_id", "default_organization_id">>
      [] p = "jira-integration" /\ h = "create_ticket" ->
            <<"project_key", "default_project">>
      [] p = "otobo" /\ h = "create_ticket" -> <<"queue", "default_queue">>
      [] p = "sharepoint_onprem" -> <<"site_url", "default_site">>
      [] p = "webhook-generic" -> <<"url", "default_url">>
      [] OTHER -> <<>>

\* C20: a handler whose request omits a field with a configured default makes
\* its calls with the default, a value in the request goes before the
\* default, and with neither the handler fails without a network call.
C20_DefaultsResolve ==
    (last.h # "none" /\ DefaultedField(plugin, last.h) # <<>>) =>
        LET f == DefaultedField(plugin, last.h)
        IN  /\ (last.calls >= 1 /\ f[1] \notin last.req) =>
                    (f[2] \in config /\ last.used = "default")
            /\ (last.calls >= 1 /\ f[1] \in last.req) => last.used = "request"
            /\ last.used = "default" => f[1] \notin last.req
            /\ (f[1] \notin last.req /\ f[2] \notin config) =>
                    (last.calls = 0 /\ last.out \in {"raise", "error"})

\* Jira's create_ticket was called without project_key, took default_project
\* and sent its request.
C20_Witness ==
    /\ plugin = "jira-integration" /\ last.h = "create_ticket"
    /\ "project_key" \notin last.req /\ "default_project" \in config
    /\ last.used = "default" /\ last.calls = 1 /\ last.out = "created"

(***************************************************************************)
(* Claims about the service registry, checked under SpecReload             *)
(***************************************************************************)

ProbeDomains == {plugin, "bot_interpreter"}

ProbeServices == {"send_email", "send_message", "register_bot"}

\* C18: registering a (domain, service) pair again, as a second run of
\* async_setup does, is not an error and leaves exactly one entry for the
\* pair, bound to the handler of the later registration; get_service returns
\* that handler, and None for a pair never registered.
C18_RegisterReplaces ==
    /\ \A x, y \in registry : (x[1] = y[1] /\ x[2] = y[2]) => x = y
    /\ \A s \in setupRet.services :
            GetService(registry, plugin, s) = setupRet.run
    /\ setupRet.services # {} => setupRet.ret = "True"
    /\ \A d \in ProbeDomains : \A s \in ProbeServices :
            (d # plugin \/ s \notin setupRet.ever) =>
                GetService(registry, d, s) = "None"

\* The SMTP plugin was set up twice.
C18_Witness ==
    /\ plugin = "smtp-standard" /\ setupRet.run = 2
    /\ registry = {<<"smtp-standard", "send_email", 2>>}
    /\ GetService(registry, "smtp-standard", "send_message") = "None"

(***************************************************************************)
(* Claims about _extract_json_from_response, checked under SpecExtract     *)
(***************************************************************************)

\* The JSON blocks of a text: the spans that parse as an object and do not
\* lie inside another such span.
JsonSpans(t) ==
    {ij \in (1..Len(t)) \X (1..Len(t)) :
        ij[1] < ij[2] /\ JsonLoads(SubSeq(t, ij[1], ij[2]))}

JsonBlocks(t) ==
    {ij \in JsonSpans(t) :
        ~\E kl \in JsonSpans(t) : kl # ij /\ kl[1] <= ij[1] /\ ij[2] <= kl[2]}

FirstBlock(t) ==
    LET ij == CHOOSE x \in JsonBlocks(t) : \A y \in JsonBlocks(t) : x[1] <= y[1]
    IN  SubSeq(t, ij[1], ij[2])

\* C19: for a response text that holds several brace-delimited JSON blocks,
\* _extract_json_from_response returns the first block parsed as JSON, not a
\* later block and not None.
C19_FirstBlockWins ==
    (extracted # Unset /\ Cardinality(JsonBlocks(responseText)) >= 2) =>
        extracted = FirstBlock(responseText)

(***************************************************************************)
(* Claims about error handling, checked under Spec                         *)
(***************************************************************************)

DockerContainerHandlers == DockerServices \ {"list_containers"}

\* C21: every Docker container handler returns a mapping and never raises: a
\* missing container_id gives the error envelope before a client is looked
\* up, a vendor not-found gives "Container <id> not found", any other
\* exception, a failed client construction included, gives str(exception).
C21_DockerHandlersNeverRaise ==
    (plugin = "docker" /\ last.h \in DockerContainerHandlers) =>
        /\ last.out \in {"success", "error"}
        /\ "container_id" \notin last.req =>
                /\ last.out = "error" /\ last.err = "container_id is required"
                /\ last.calls = 0 /\ last.tried = {}
        /\ ("container_id" \in last.req /\ last.tried # last.built) =>
                (last.out = "error" /\ last.err = "str(e)" /\ last.calls = 0)
        /\ last.first = "empty" =>
                (last.out = "error" /\ last.err = "Container <id> not found")
        /\ last.first = "fail" => (last.out = "error" /\ last.err = "str(e)")
        /\ (last.calls = 2 /\ ~last.vendorOk /\ last.first = "ok"
                /\ last.out = "error") => last.err = "str(e)"

\* start_container met a Docker daemon that refused the client.
C21_Witness ==
    /\ plugin = "docker" /\ last.h = "start_container"
    /\ "container_id" \in last.req /\ last.tried # {} /\ last.built = {}
    /\ last.out = "error" /\ last.err = "str(e)"

\* C22: a call of async_setup that returns False has registered no service,
\* whatever made it fail: a missing key, a missing package, a missing
\* dependency or a failed connection test.
C22_FalseSetupRegisteredNothing ==
    setupRet.ret = "False" => (setupRet.services = {} /\ registry = {})

\* Cloudflare's connection test failed.
C22_Witness ==
    /\ plugin = "cloudflare" /\ "lib" \in env /\ ~ConfigMissing
    /\ setupRet.failed /\ setupRet.ret = "False" /\ registry = {}

\* C23: when the registry holds (bot_interpreter, register_bot) at setup
\* time, async_setup of each chat-bot plugin calls it exactly once, with its
\* services registered, on its way to returning True.
C23_SetupCallsInterpreterOnce ==
    (plugin \in BotPlugins /\ setupRet.ret = "True" /\ "interpreter" \in env) =>
        /\ setupRet.interp = 1
        /\ setupRet.services = BotServices

(***************************************************************************)
(* Claims about AIHelper's generation parameters, checked under SpecAI     *)
(***************************************************************************)

\* C24: AIHelper.query hands the selected backend the caller's max_tokens and
\* temperature whenever the caller supplies them, and the configured defaults
\* only when the caller leaves them out.
C24_OverridesReachTheBackend ==
    aiLast.backend # "none" =>
        /\ aiLast.sent_max_tokens =
                IF aiLast.max_tokens # NoArg THEN aiLast.max_tokens ELSE AIMaxTokens
        /\ aiLast.sent_temperature =
                IF aiLast.temperature # NoArg THEN aiLast.temperature
                ELSE AITemperature

(***************************************************************************)
(* Claims about read-then-write handlers, checked under Spec               *)
(***************************************************************************)

\* The request gives the DNS field a value: a non-empty type, name or
\* content, any ttl or proxied (0 and False included).
DnsFieldProvided(f, req) ==
    f \in req /\ (f \in {"ttl", "proxied"} \/ "falsy" \notin req)

\* C25: Cloudflare update_dns_record fetches the record and then sends one
\* update in which each of type, name, content, ttl and proxied is the
\* request's value when the request gives one and the existing record's
\* otherwise; when the fetch fails no update is sent and the error envelope
\* is returned.
C25_UpdateMergesIntoExisting ==
    (plugin = "cloudflare" /\ last.h = "update_dns_record") =>
        /\ last.calls <= 2
        /\ last.out = "success" => last.calls = 2
        /\ last.first = "fail" => (last.calls = 1 /\ last.out = "error")
        /\ last.calls = 2 =>
                \A f \in DnsRecordFields :
                    f \in last.fromReq <=> DnsFieldProvided(f, last.req)
        /\ last.calls < 2 => last.fromReq = {}

\* An update that sets proxied to False and leaves the name as it was.
C25_Witness ==
    /\ plugin = "cloudflare" /\ last.h = "update_dns_record"
    /\ {"proxied", "falsy"} \subseteq last.req /\ "name" \notin last.req
    /\ last.calls = 2 /\ last.out = "success"
    /\ "proxied" \in last.fromReq /\ "name" \notin last.fromReq

\* ---- C26 --------------------------------------------------------------------

NetBoxMutators == {"create_device", "update_device", "delete_device"}

\* Outbound call i was made and answered with what was asked for.
Answered(script, i) == i \in DOMAIN script /\ script[i] = "ok"

\* The lookups a device handler needs, read off the answers to the calls it
\* made: the device type and the site (by slug or by name) for create_device,
\* the device (by id, or by name once the id failed) for the other two.
NetBoxResolved(h, script) ==
    IF h = "create_device"
    THEN Answered(script, 1) /\ (Answered(script, 2) \/ Answered(script, 3))
    ELSE Answered(script, 1)
         \/ (1 \in DOMAIN script /\ script[1] = "fail" /\ Answered(script, 2))

\* The request names something update_device can change.
NetBoxUpdatable(req) == req \cap {"name", "role"} # {}

\* C26: create_device, update_device and delete_device send at most one
\* mutating request, as their last outbound call and only when the lookups
\* they need were answered; with an unresolved device type, site or device
\* they return success false without one, and update_device asked to change
\* nothing returns an error without a PATCH, "No fields to update" once the
\* device was found.
C26_MutationFollowsLookups ==
    (plugin = "netbox" /\ last.h \in NetBoxMutators) =>
        /\ last.mutating <= 1
        /\ last.mutating = 1 =>
                /\ "device_id" \in last.req \/ last.h = "create_device"
                /\ NetBoxResolved(last.h, SubSeq(last.script, 1, last.calls - 1))
        /\ ~NetBoxResolved(last.h, last.script) =>
                (last.out = "error" /\ last.mutating = 0)
        /\ (last.h = "update_device" /\ ~NetBoxUpdatable(last.req)) =>
                /\ last.out = "error" /\ last.mutating = 0
                /\ NetBoxResolved(last.h, last.script) =>
                        last.err = "No fields to update"

C26_Witness ==
    /\ plugin = "netbox" /\ last.h = "update_device"
    /\ last.mutating = 1 /\ last.out = "success"
    /\ last.script[1] = "fail" /\ "role" \in last.req

\* ---- C27 --------------------------------------------------------------------

\* C27: with provider "auto", whenever some provider is fully configured the
\* dispatcher selects a provider for which is_provider_available is true, so
\* that the query passes the backend's own credential checks.
C27_AutoSelectsAnAvailableProvider ==
    (aiLast.provider = "auto"
        /\ \E p \in {"gemini", "chatgpt", "azure"} : IsProviderAvailable(aiCfg, p)) =>
        /\ IsProviderAvailable(aiCfg, aiLast.selected)
        /\ aiLast.lib => aiLast.backend = aiLast.selected

\* ---- C28 --------------------------------------------------------------------

\* C28: a handler that returns a success result (success true or the status
\* "sent") made an outbound call during that invocation which completed
\* without error.
C28_SuccessFollowsAnOutboundCall ==
    (last.h # "none" /\ last.out \in {"success", "sent"}) =>
        \E i \in 1..last.calls : last.script[i] # "fail"

\* ---- C29 --------------------------------------------------------------------

\* C29: analyze_logs reports as logs_analyzed the number of log entries that
\* went into the prompt, which is at most 100: the most recent 100 entries
\* of log_data, in their original order.
C29_LogsAnalyzedCountsThePrompt ==
    analysis.out = "success" =>
        /\ analysis.logs_analyzed = Len(analysis.prompt)
        /\ Len(analysis.prompt) <= MaxLogs
        /\ \A i \in 1..Len(analysis.prompt) :
                analysis.prompt[i].line
                    = logData[Len(logData) - Len(analysis.prompt) + i]

\* ---- C30 --------------------------------------------------------------------

\* C30: no two distinct keys of the Docker client cache hold clients built
\* with the same base URL: the mapping from cached host string to base URL
\* is injective.
C30_CacheKeysNameDistinctEndpoints ==
    plugin = "docker" =>
        \A h1 \in inst \cap DockerHosts : \A h2 \in inst \cap DockerHosts :
            DockerBaseUrl(h1) = DockerBaseUrl(h2) => h1 = h2

====
